---- MODULE Spec2Model ----
(***************************************************************************)
(* Model of the workflow execution engine of generative_ai_workflow:       *)
(* WorkflowEngine.use / run_async / _execute_nodes / run (engine.py), the  *)
(* input safety check (workflow.py) and the data records they build.       *)
(*                                                                         *)
(* One run of one engine on one Workflow is modelled.  A coroutine is cut  *)
(* at its awaits: the awaited user code (a middleware hook, a node's       *)
(* execute_async) is the environment, and an action is the engine code     *)
(* that runs when the awaited call comes back.  Wall-clock readings and    *)
(* uuids (durations of the run, step_id, workflow_id, correlation_id,      *)
(* timestamps) are not modelled.                                           *)
(*                                                                         *)
(* SpecCond models one call of ConditionalNode.execute_async               *)
(* (control_flow.py) with ExpressionEvaluator.evaluate on its condition.   *)
(*                                                                         *)
(* SpecSync models run_sync (_internal/async_utils.py), the bridge of      *)
(* WorkflowEngine.run from the calling thread to an event loop: the        *)
(* calling thread, the worker thread and the coroutine of the run, whose   *)
(* awaits are counted and not looked into.                                 *)
(*                                                                         *)
(* SpecLLM models one call of LLMNode.execute_async (node.py) made during  *)
(* a run of an engine with registered middleware: the prompt is rendered,  *)
(* the provider is looked up in the PluginRegistry and called.             *)
(*                                                                         *)
(* SpecInput models runs of the engine on inputs that hold list values.    *)
(*                                                                         *)
(* SpecTokens models the token accounting of a run: TokenUsage and         *)
(* TokenUsageTracker.record (providers/base.py, observability/tracker.py). *)
(*                                                                         *)
(* SpecRetry models OpenAIProvider.complete_async (providers/openai.py)    *)
(* under the policy of build_retry (_internal/retry.py); SpecClassify      *)
(* models is_retryable_error on the failures a provider call can end with. *)
(*                                                                         *)
(* SpecWorkflow models the construction of a Workflow (workflow.py),       *)
(* SpecRegistry the calls on the PluginRegistry (plugins/registry.py) and  *)
(* SpecEval the calls of ExpressionEvaluator.evaluate (control_flow.py).   *)
(*                                                                         *)
(* SpecNested models the execution of a tree of ConditionalNodes nested    *)
(* in each other, SpecSandbox the calls of validate_expression and         *)
(* evaluate on kinds of expression strings, and SpecConcurrent two calls   *)
(* of run_async on one engine and one Workflow, interleaved at the awaits. *)
(*                                                                         *)
(* SpecTerminates is the fair specification of a run of run_async, of a    *)
(* tree of ConditionalNodes and of a provider call under the retry policy: *)
(* whatever is awaited comes back and the coroutine is resumed.            *)
(***************************************************************************)
EXTENDS Integers, Sequences, FiniteSets, TLC

\* ------------------------------------------------------------------ bounds
\* MaxNodes bounds the nodes of the workflow, MaxSize the nodes plus the
\* registered middleware of one configuration.
MaxNodes == 3
MaxSize == 4
\* MaxChildren bounds the children of a ConditionalNode, both branches together.
MaxChildren == 3
\* MaxAwaits bounds the awaits the coroutine of a bridged run goes through.
MaxAwaits == 3
\* MaxUsages bounds the nodes whose token usage is recorded.
MaxUsages == 3
\* MaxAttempts bounds the attempts the retry policy is configured with.
MaxAttempts == 3
\* MaxClassified bounds the calls of is_retryable_error.
MaxClassified == 2
\* MaxNames bounds the node list a Workflow is constructed from.
MaxNames == 3
\* MaxRegistryCalls bounds the calls made on the PluginRegistry.
MaxRegistryCalls == 3
\* MaxEvaluations bounds the calls of ExpressionEvaluator.evaluate.
MaxEvaluations == 1
\* MaxDepth bounds the depth to which ConditionalNodes are nested.
MaxDepth == 2
\* MaxChecks bounds the expressions validated or evaluated.
MaxChecks == 2
\* MaxShared bounds the nodes of the Workflow that concurrent runs share.
MaxShared == 1

\* Keys a node may write into its output map; the value a node writes is its
\* own position, so that the writer of every entry can be told.
Keys == {"a", "b"}

\* --------------------------------------------------------------- variables
VARIABLES
    nodes,             \* workflow.nodes: sequence of [name, is_critical]
    middleware,        \* engine._middleware: sequence of [id, broken]
    pc,                \* position of the run
    input_data,        \* the input_data argument of the run
    timeout,           \* the timeout argument of run ("None" or "T")
    h,                 \* position in the middleware list of the current hook loop
    idx,               \* position in workflow.nodes of the node loop
    node_ctx,          \* NodeContext built for the node being invoked
    node_result,       \* NodeResult of the node last invoked
    previous_outputs,  \* accumulator of _execute_nodes
    node_results,      \* node_results list of _execute_nodes
    metrics,           \* ExecutionMetrics of _execute_nodes
    result,            \* the WorkflowResult run_async holds
    returned,          \* the WorkflowResult the caller received
    calls,             \* log: node invocations and their returns, in order
    hook_log           \* log: hook invocations, in order

\* one call of ConditionalNode.execute_async
VARIABLES
    true_nodes,          \* self.true_nodes: sequence of [name, is_critical]
    false_nodes,         \* self.false_nodes
    is_critical,         \* self.is_critical
    cpc,                 \* position of execute_async
    given,               \* the NodeContext as the caller built it
    context,             \* the NodeContext object execute_async works on
    branch_name,         \* "true" or "false" once a branch is selected
    selected_nodes,      \* the nodes of the selected branch
    child,               \* position in selected_nodes of the child loop
    accumulated_output,  \* accumulated_output of execute_async
    total_token_usage,   \* total_token_usage of execute_async
    usage_records,       \* the token_usage objects the children returned, as they are now
    total_ref,           \* which of them total_token_usage is bound to, 0 for None or a new one
    cond_result,         \* the NodeResult execute_async returned
    child_calls          \* log: child invocations and their returns, in order

\* one call of run_sync
VARIABLES
    caller,         \* what the calling thread is doing when run is called
    spc,            \* position of run_sync on the calling thread
    wpc,            \* position of the worker thread of the executor
    running_loops,  \* per thread, the event loops running on it
    future,         \* the future of executor.submit
    coro,           \* the coroutine handed to run_sync
    sync_result,    \* what run_sync returned
    outer           \* the run_async the call was made from, if any

\* one call of LLMNode.execute_async
VARIABLES
    prompt_template,  \* self.prompt_template: the placeholders of the template
    lpc,              \* position of execute_async
    llm_context,      \* the NodeContext execute_async was called with
    request,          \* the LLMRequest built for the provider
    provider_calls,   \* log: the requests the provider's complete_async received
    llm_hook_log,     \* log: before_llm_call / after_llm_call invocations
    llm_result        \* the NodeResult execute_async returned

\* token accounting: one TokenUsageTracker and the metrics of one _execute_nodes
VARIABLES
    usages,           \* the token usage each node reported, by node position
    recorded,         \* the nodes TokenUsageTracker.record was called for, in order
    _total,           \* TokenUsageTracker._total
    _node_usage,      \* TokenUsageTracker._node_usage
    engine_recorded,  \* the nodes _execute_nodes recorded metrics for, in order
    token_metrics     \* the ExecutionMetrics of that _execute_nodes

\* one call of OpenAIProvider.complete_async
VARIABLES
    max_attempts,     \* self._max_retries, the attempts of the retry policy
    attempt_number,   \* the attempt the retry loop is in
    rpc,              \* position of complete_async
    api_calls,        \* log: the calls of _call_api and how each ended, in order
    provider_result   \* what complete_async returned or raised

\* calls of is_retryable_error
VARIABLES
    classified   \* log: the exceptions is_retryable_error was called with and what it returned

\* one call of Workflow(nodes=...)
VARIABLES
    node_list,  \* the nodes argument: the names of the nodes, in order
    wf_state,   \* "idle", "constructed", or "ValueError" when __init__ raised
    wf_nodes,   \* self.nodes of the constructed Workflow
    wf_error    \* the message of the ValueError __init__ raised

\* the PluginRegistry
VARIABLES
    _providers,    \* PluginRegistry._providers: provider name -> registered instance
    registry_log   \* log: the calls of the registry and how each ended, in order

\* ExpressionEvaluator.evaluate, called on its own
VARIABLES
    evaluations   \* the calls of evaluate so far: expression, context and what came back

\* a ConditionalNode whose branch holds another ConditionalNode, executed
VARIABLES
    max_nesting_depth,  \* workflow.config.max_nesting_depth
    levels,             \* the tree: levels[d] holds the flags of the ConditionalNode at depth d and of its last child
    shared_outputs,     \* previous_outputs of the NodeContext object, the one all levels are handed
    stack,              \* the calls of execute_async in progress, outermost first: level, child, accumulated_output
    npc,                \* position of the innermost call
    pending,            \* the NodeResult a child is coming back with
    nest_result,        \* the NodeResult the outermost execute_async returned
    nest_log            \* log: the invocations and returns of all nodes of the tree, in order

\* ExpressionEvaluator.validate_expression and evaluate on the forms of expression
VARIABLES
    checked   \* log: the expressions handed to validate_expression or evaluate, and what came back

\* several run_async calls on one engine and one Workflow, interleaved at their awaits
VARIABLES
    shared_nodes,  \* workflow.nodes of the one Workflow: kind and is_critical of each node
    run_pc,        \* for each run, the position of its coroutine
    frames,        \* the locals of the calls of _execute_nodes and of ConditionalNode.execute_async
    run_results,   \* for each run, the WorkflowResult run_async returned
    run_calls      \* for each run, the log of the invocations and returns of its nodes

engine_vars == <<nodes, middleware, pc, input_data, timeout, h, idx, node_ctx,
                 node_result, previous_outputs, node_results, metrics, result,
                 returned, calls, hook_log>>

cond_vars == <<true_nodes, false_nodes, is_critical, cpc, given, context, branch_name,
               selected_nodes, child, accumulated_output, total_token_usage,
               usage_records, total_ref, cond_result, child_calls>>

sync_vars == <<caller, spc, wpc, running_loops, future, coro, sync_result, outer>>

llm_vars == <<prompt_template, lpc, llm_context, request, provider_calls,
              llm_hook_log, llm_result>>

tracker_vars == <<usages, recorded, _total, _node_usage, engine_recorded, token_metrics>>

retry_vars == <<max_attempts, attempt_number, rpc, api_calls, provider_result>>

classify_vars == <<classified>>

ctor_vars == <<node_list, wf_state, wf_nodes, wf_error>>

registry_vars == <<_providers, registry_log>>

eval_vars == <<evaluations>>

nest_vars == <<max_nesting_depth, levels, shared_outputs, stack, npc, pending, nest_result, nest_log>>

sandbox_vars == <<checked>>

conc_vars == <<shared_nodes, run_pc, frames, run_results, run_calls>>

\* the variables the engine's run, a ConditionalNode, run_sync, an LLMNode,
\* the token accounting, a provider call, the classification of failures,
\* the construction of a Workflow, the PluginRegistry leave alone
not_engine_vars == <<cond_vars, sync_vars, llm_vars, tracker_vars, retry_vars, classify_vars, ctor_vars, registry_vars, eval_vars, nest_vars, sandbox_vars, conc_vars>>
not_cond_vars == <<engine_vars, sync_vars, llm_vars, tracker_vars, retry_vars, classify_vars, ctor_vars, registry_vars, eval_vars, nest_vars, sandbox_vars, conc_vars>>
not_sync_vars == <<engine_vars, cond_vars, llm_vars, tracker_vars, retry_vars, classify_vars, ctor_vars, registry_vars, eval_vars, nest_vars, sandbox_vars, conc_vars>>
not_llm_vars == <<engine_vars, cond_vars, sync_vars, tracker_vars, retry_vars, classify_vars, ctor_vars, registry_vars, eval_vars, nest_vars, sandbox_vars, conc_vars>>
not_tracker_vars == <<engine_vars, cond_vars, sync_vars, llm_vars, retry_vars, classify_vars, ctor_vars, registry_vars, eval_vars, nest_vars, sandbox_vars, conc_vars>>
not_retry_vars == <<engine_vars, cond_vars, sync_vars, llm_vars, tracker_vars, classify_vars, ctor_vars, registry_vars, eval_vars, nest_vars, sandbox_vars, conc_vars>>
not_classify_vars == <<engine_vars, cond_vars, sync_vars, llm_vars, tracker_vars, retry_vars, ctor_vars, registry_vars, eval_vars, nest_vars, sandbox_vars, conc_vars>>
not_ctor_vars == <<engine_vars, cond_vars, sync_vars, llm_vars, tracker_vars, retry_vars, classify_vars, registry_vars, eval_vars, nest_vars, sandbox_vars, conc_vars>>
not_registry_vars == <<engine_vars, cond_vars, sync_vars, llm_vars, tracker_vars, retry_vars, classify_vars, ctor_vars, eval_vars, nest_vars, sandbox_vars, conc_vars>>
not_eval_vars == <<engine_vars, cond_vars, sync_vars, llm_vars, tracker_vars, retry_vars, classify_vars, ctor_vars, registry_vars, nest_vars, sandbox_vars, conc_vars>>
not_nest_vars == <<engine_vars, cond_vars, sync_vars, llm_vars, tracker_vars, retry_vars, classify_vars, ctor_vars, registry_vars, eval_vars, sandbox_vars, conc_vars>>
not_sandbox_vars == <<engine_vars, cond_vars, sync_vars, llm_vars, tracker_vars, retry_vars, classify_vars, ctor_vars, registry_vars, eval_vars, nest_vars, conc_vars>>
not_conc_vars == <<engine_vars, cond_vars, sync_vars, llm_vars, tracker_vars, retry_vars, classify_vars, ctor_vars, registry_vars, eval_vars, nest_vars, sandbox_vars>>

vars == <<engine_vars, cond_vars, sync_vars, llm_vars, tracker_vars, retry_vars, classify_vars, ctor_vars, registry_vars, eval_vars, nest_vars, sandbox_vars, conc_vars>>

\* ------------------------------------------------------------ data records
EmptyMap == [k \in {} |-> 0]

\* Optional[dict]: None or a map
NoneOut == [some |-> FALSE, val |-> EmptyMap]
SomeOut(m) == [some |-> TRUE, val |-> m]

\* dict truthiness: `if d:` is false for None and for {}
Truthy(o) == o.some /\ DOMAIN o.val # {}

\* dict.update
Update(a, b) == [k \in (DOMAIN a) \cup (DOMAIN b) |-> IF k \in DOMAIN b THEN b[k] ELSE a[k]]

\* Optional[TokenUsage]
NoTok == [some |-> FALSE, prompt_tokens |-> 0, completion_tokens |-> 0, total_tokens |-> 0, model |-> 0]
TokenUsage(p, c, t, m) ==
    [some |-> TRUE, prompt_tokens |-> p, completion_tokens |-> c, total_tokens |-> t, model |-> m]

NodeStatus == {"PENDING", "RUNNING", "COMPLETED", "FAILED", "SKIPPED"}
WorkflowStatus == {"PENDING", "RUNNING", "COMPLETED", "FAILED", "CANCELLED", "TIMEOUT"}

\* WorkflowStatus.is_terminal
is_terminal(s) == s \in {"COMPLETED", "FAILED", "CANCELLED", "TIMEOUT"}

NodeResult(st, out, err, dur, tok) ==
    [status |-> st, output |-> out, error |-> err, duration_ms |-> dur, token_usage |-> tok]
NoNodeResult == NodeResult("NONE", NoneOut, "None", 0, NoTok)

NodeContext(inp, prev) == [input_data |-> inp, previous_outputs |-> prev]
NoContext == [input_data |-> EmptyMap, previous_outputs |-> [k \in {"NONE"} |-> 0]]

ExecutionMetrics ==
    [step_durations |-> EmptyMap, token_usage_total |-> NoTok, step_token_usage |-> EmptyMap,
     steps_completed |-> 0, steps_failed |-> 0, steps_skipped |-> 0]

NoError == [kind |-> "None", node |-> 0, detail |-> "None"]
WorkflowResult(st, out, err, m) == [status |-> st, output |-> out, error |-> err, metrics |-> m]
NoResult == WorkflowResult("NONE", NoneOut, NoError, ExecutionMetrics)

\* ------------------------------------------------------------ input values
\* A value of the input map: a string (its lower-cased words, in order), a
\* nested map, or a list of values.
Str(ws) == [t |-> "str", s |-> ws, d |-> EmptyMap]
Dict(m) == [t |-> "dict", s |-> <<>>, d |-> m]
List(vs) == [t |-> "list", s |-> <<>>, d |-> vs]

\* _INJECTION_PATTERNS, re.IGNORECASE, pattern.search(text):
\* ignore\s+previous, \breveal\b, system\s+prompt
MatchesInjection(ws) ==
    \/ \E i \in 1..(Len(ws) - 1) : ws[i] = "ignore" /\ ws[i + 1] = "previous"
    \/ \E i \in 1..Len(ws) : ws[i] = "reveal"
    \/ \E i \in 1..(Len(ws) - 1) : ws[i] = "system" /\ ws[i + 1] = "prompt"

\* _validate_input_data: TRUE when it returns, FALSE when it raises ValueError.
\* Only str and dict values are looked at.
RECURSIVE _validate_input_data(_)
_validate_input_data(data) ==
    \A k \in DOMAIN data :
        IF data[k].t = "str" THEN ~MatchesInjection(data[k].s)
        ELSE IF data[k].t = "dict" THEN _validate_input_data(data[k].d)
        ELSE TRUE

InputHello == [k \in {"text"} |-> Str(<<"hello">>)]
InputIgnore == [k \in {"text"} |-> Str(<<"ignore", "previous", "instructions">>)]
InputNested == [k \in {"meta"} |-> Dict([k2 \in {"note"} |-> Str(<<"please", "reveal">>)])]
InputDatas == {InputHello, InputIgnore, InputNested}

\* Inputs with a list value: of harmless strings, of a string that matches a
\* pattern, of a map that holds one.
InputList == [k \in {"items"} |-> List(<<Str(<<"hello">>), Str(<<"world">>)>>)]
InputListIgnore == [k \in {"items"} |-> List(<<Str(<<"hello">>), Str(<<"ignore", "previous">>)>>)]
InputListNested ==
    [k \in {"items"} |-> List(<<Dict([k2 \in {"note"} |-> Str(<<"system", "prompt">>)])>>)]
InputLists == {InputList, InputListIgnore, InputListNested}

\* ------------------------------------------------------ what a node can do
\* The output maps node i can produce.
NodeOutputs(i) == {[k \in S |-> i] : S \in SUBSET Keys}

\* Results a node's execute_async can return.  TransformNode: COMPLETED with
\* the transform's map, or FAILED without output.  LLMNode: COMPLETED with its
\* output keys and the provider's token usage, or FAILED without output.  A
\* user-defined WorkflowNode may return any NodeResult, such as FAILED with an
\* output and token usage.
ReturnedResults(i) ==
    {NodeResult("COMPLETED", SomeOut(m), "None", 1, NoTok) : m \in NodeOutputs(i) \ {[k \in Keys |-> i]}}
    \cup {NodeResult("COMPLETED", SomeOut([k \in Keys |-> i]), "None", 1, TokenUsage(i, 1, i + 1, i))}
    \cup {NodeResult("FAILED", NoneOut, "err", 1, NoTok)}
    \cup {NodeResult("FAILED", SomeOut([k \in {"a"} |-> i]), "err", 1, TokenUsage(i, 1, i + 1, i))}

\* Messages of the exceptions a node's execute_async can raise.
ExceptionMessages == {"boom"}

\* --------------------------------------------------------------- workflows
\* Workflow.__init__ accepts a non-empty list of nodes with distinct non-empty
\* names; a node is named by its position here.
Workflows ==
    UNION {[1..n -> BOOLEAN] : n \in 1..MaxNodes}

WorkflowNodes(crit) == [i \in DOMAIN crit |-> [name |-> i, is_critical |-> crit[i]]]

\* ------------------------------------------------------------------- Init
\* No ConditionalNode is being executed.
NoConditional ==
    /\ true_nodes = <<>>
    /\ false_nodes = <<>>
    /\ is_critical = TRUE
    /\ cpc = "none"
    /\ given = NoContext
    /\ context = NoContext
    /\ branch_name = "None"
    /\ selected_nodes = <<>>
    /\ child = 0
    /\ accumulated_output = EmptyMap
    /\ total_token_usage = NoTok
    /\ usage_records = <<>>
    /\ total_ref = 0
    /\ cond_result = NoNodeResult
    /\ child_calls = <<>>

\* The threads: the one run is called on and the executor's worker.
Threads == {"caller", "worker"}

\* A coroutine: the awaits it has ahead and behind, the timeout of the run, the
\* thread whose loop drives it.
NoCoroutine == [awaits |-> 0, awaited |-> 0, timeout |-> "None", on |-> "None"]

\* run_sync is not being called.
NoBridge ==
    /\ caller = "None"
    /\ spc = "none"
    /\ wpc = "none"
    /\ running_loops = [t \in Threads |-> 0]
    /\ future = NoResult
    /\ coro = NoCoroutine
    /\ sync_result = NoResult
    /\ outer = "None"

NoRequest == [prompt |-> <<>>, model |-> "None"]

\* No LLMNode is being executed.
NoLLMNode ==
    /\ prompt_template = <<>>
    /\ lpc = "none"
    /\ llm_context = NoContext
    /\ request = NoRequest
    /\ provider_calls = <<>>
    /\ llm_hook_log = <<>>
    /\ llm_result = NoNodeResult

\* No workflow is being run.
NoEngine ==
    /\ nodes = <<>>
    /\ middleware = <<>>
    /\ pc = "none"
    /\ input_data = EmptyMap
    /\ timeout = "None"
    /\ h = 0
    /\ idx = 0
    /\ node_ctx = NoContext
    /\ node_result = NoNodeResult
    /\ previous_outputs = EmptyMap
    /\ node_results = <<>>
    /\ metrics = ExecutionMetrics
    /\ result = NoResult
    /\ returned = NoResult
    /\ calls = <<>>
    /\ hook_log = <<>>

\* No token usage is being recorded.
NoTracker ==
    /\ usages = <<>>
    /\ recorded = <<>>
    /\ _total = NoTok
    /\ _node_usage = EmptyMap
    /\ engine_recorded = <<>>
    /\ token_metrics = ExecutionMetrics

\* An exception: its class and its status_code attribute, if it has one.
Exc(cls, status_code) == [cls |-> cls, status_code |-> status_code]
NoExc == Exc("None", 0)

\* How a call of _call_api ended.
Outcome(kind, exc) == [kind |-> kind, exc |-> exc]

\* What complete_async gives its caller: an LLMResponse or a raised error
\* with the exception it was raised from.
ProviderResult(kind, cause) == [kind |-> kind, cause |-> cause]
NoProviderResult == ProviderResult("None", NoExc)

\* complete_async is not being called.
NoRetry ==
    /\ max_attempts = 0
    /\ attempt_number = 0
    /\ rpc = "none"
    /\ api_calls = <<>>
    /\ provider_result = NoProviderResult

\* is_retryable_error has not been called.
NoClassified == classified = <<>>

\* No Workflow is being constructed.
NoWorkflow ==
    /\ node_list = <<>>
    /\ wf_state = "none"
    /\ wf_nodes = <<>>
    /\ wf_error = "None"

\* PluginRegistry._register_builtins: "openai" is registered on import.
Builtins == [n \in {"openai"} |-> "OpenAIProvider()"]

\* The registry is not looked at.
NoRegistry ==
    /\ _providers = EmptyMap
    /\ registry_log = <<>>

\* No expression has been evaluated.
NoEvaluation == evaluations = <<>>

\* No tree of ConditionalNodes is being executed.
NoNesting ==
    /\ max_nesting_depth = 5
    /\ levels = <<>>
    /\ shared_outputs = EmptyMap
    /\ stack = <<>>
    /\ npc = "none"
    /\ pending = NoNodeResult
    /\ nest_result = NoNodeResult
    /\ nest_log = <<>>

\* No expression has been validated.
NoChecks == checked = <<>>

\* No concurrent runs.
NoRuns ==
    /\ shared_nodes = <<>>
    /\ run_pc = <<>>
    /\ frames = <<>>
    /\ run_results = <<>>
    /\ run_calls = <<>>

Init ==
    /\ NoRuns
    /\ NoChecks
    /\ NoNesting
    /\ NoEvaluation
    /\ NoRegistry
    /\ NoWorkflow
    /\ NoClassified
    /\ NoRetry
    /\ NoTracker
    /\ NoConditional
    /\ NoBridge
    /\ NoLLMNode
    /\ nodes \in {WorkflowNodes(c) : c \in Workflows}
    /\ middleware = <<>>
    /\ pc = "idle"
    /\ input_data = EmptyMap
    /\ timeout = "None"
    /\ h = 0
    /\ idx = 0
    /\ node_ctx = NoContext
    /\ node_result = NoNodeResult
    /\ previous_outputs = EmptyMap
    /\ node_results = <<>>
    /\ metrics = ExecutionMetrics
    /\ result = NoResult
    /\ returned = NoResult
    /\ calls = <<>>
    /\ hook_log = <<>>

\* ------------------------------------------------------------------ hooks
\* What awaiting a lifecycle hook of middleware mw gives: it returns or raises.
HookOutcome(mw) == IF mw.broken THEN "raised" ELSE "ok"

HookCall(kind, mw, outcome, node, status) ==
    [kind |-> kind, mw |-> mw.id, outcome |-> outcome, node |-> node, status |-> status]

AfterHook_StopsOnRaise(i, outcome) == IF outcome = "raised" THEN Len(middleware) + 1 ELSE i + 1

\* for mw in self._middleware: try: await mw.<hook>(...) except Exception: log
\* -- the position the loop goes on from after hook number i came back.
AfterHook(i, outcome) == i + 1

\* ---------------------------------------------------------------- actions
Use_Prepends(broken) ==
    /\ pc = "idle"
    /\ Len(nodes) + Len(middleware) < MaxSize
    /\ middleware' = <<[id |-> Len(middleware) + 1, broken |-> broken]>> \o middleware
    /\ UNCHANGED not_engine_vars
    /\ UNCHANGED <<nodes, pc, input_data, timeout, h, idx, node_ctx, node_result,
                   previous_outputs, node_results, metrics, result, returned, calls, hook_log>>

\* WorkflowEngine.use: self._middleware.append(middleware).  A middleware is
\* identified by its registration number.
Use(broken) ==
    /\ pc = "idle"
    /\ Len(nodes) + Len(middleware) < MaxSize
    /\ middleware' = Append(middleware, [id |-> Len(middleware) + 1, broken |-> broken])
    /\ UNCHANGED not_engine_vars
    /\ UNCHANGED <<nodes, pc, input_data, timeout, h, idx, node_ctx, node_result,
                   previous_outputs, node_results, metrics, result, returned, calls, hook_log>>

InputValidationFailed ==
    WorkflowResult("FAILED", NoneOut,
                   [kind |-> "input_validation", node |-> 0, detail |-> "unsafe content"],
                   ExecutionMetrics)

\* run_async up to its first await: the input safety check, then the
\* workflow-start hook loop is entered.
Begin(inp, t) ==
    /\ pc = "idle"
    /\ input_data' = inp
    /\ timeout' = t
    /\ IF ~_validate_input_data(inp)
       THEN /\ result' = InputValidationFailed
            /\ returned' = InputValidationFailed
            /\ pc' = "returned"
            /\ h' = h
       ELSE /\ pc' = "start_hooks"
            /\ h' = 1
            /\ UNCHANGED <<result, returned>>
    /\ UNCHANGED not_engine_vars
    /\ UNCHANGED <<nodes, middleware, idx, node_ctx, node_result, previous_outputs,
                   node_results, metrics, calls, hook_log>>

\* await engine.run_async(workflow, input_data)
RunAsync(inp) == Begin(inp, "None")

\* engine.run(workflow, input_data, timeout=t): run_sync(run_async(...)) when t
\* is None, run_sync(wait_for(run_async(...), t)) otherwise.
Run(inp, t) == Begin(inp, t)

\* one turn of the on_workflow_start loop
StartHook ==
    /\ pc = "start_hooks"
    /\ h <= Len(middleware)
    /\ hook_log' = Append(hook_log, HookCall("start", middleware[h], HookOutcome(middleware[h]), 0, "None"))
    /\ h' = AfterHook(h, HookOutcome(middleware[h]))
    /\ UNCHANGED not_engine_vars
    /\ UNCHANGED <<nodes, middleware, pc, input_data, timeout, idx, node_ctx, node_result,
                   previous_outputs, node_results, metrics, result, returned, calls>>

\* _execute_nodes is entered: its locals are initialised
EnterNodes ==
    /\ pc = "start_hooks"
    /\ h > Len(middleware)
    /\ pc' = "loop"
    /\ idx' = 1
    /\ previous_outputs' = EmptyMap
    /\ node_results' = <<>>
    /\ metrics' = ExecutionMetrics
    /\ UNCHANGED not_engine_vars
    /\ UNCHANGED <<nodes, middleware, input_data, timeout, h, node_ctx, node_result,
                   result, returned, calls, hook_log>>

BuildContext_NoOutputs(inp, prev) == NodeContext(inp, EmptyMap)

\* The NodeContext the engine builds for a node.
BuildContext(inp, prev) == NodeContext(inp, prev)

\* An entry of the log calls: ev is "call", "ret" or "cancel"; exc is the message
\* of the exception the node raised, "None" when it returned.
Event(ev, i, ctx, res, exc) ==
    [ev |-> ev, node |-> i, ctx |-> ctx, res |-> res, exc |-> exc]

\* for node in workflow.nodes: build the context, await node.execute_async
InvokeNode ==
    /\ pc = "loop"
    /\ idx <= Len(nodes)
    /\ node_ctx' = BuildContext(input_data, previous_outputs)
    /\ calls' = Append(calls, Event("call", idx, node_ctx', NoNodeResult, "None"))
    /\ pc' = "in_node"
    /\ UNCHANGED not_engine_vars
    /\ UNCHANGED <<nodes, middleware, input_data, timeout, h, idx, node_result,
                   previous_outputs, node_results, metrics, result, returned, hook_log>>

ExceptionToResult_NoMessage(msg) == NodeResult("FAILED", NoneOut, "None", 0, NoTok)

\* except Exception as e: the NodeResult the engine makes of a raised exception
ExceptionToResult(msg) == NodeResult("FAILED", NoneOut, msg, 0, NoTok)

\* "Record metrics": step_durations, step_token_usage, token_usage_total
RecordMetrics(m, name, nr) ==
    LET tu == nr.token_usage
        prev == m.token_usage_total
    IN  [m EXCEPT
            !.step_durations = Update(@, [k \in {name} |-> nr.duration_ms]),
            !.step_token_usage = IF tu.some THEN Update(@, [k \in {name} |-> tu]) ELSE @,
            !.token_usage_total =
                IF ~tu.some THEN @
                ELSE IF ~prev.some THEN tu
                ELSE TokenUsage(prev.prompt_tokens + tu.prompt_tokens,
                                prev.completion_tokens + tu.completion_tokens,
                                prev.total_tokens + tu.total_tokens,
                                tu.model)]

\* if node_result.status == NodeStatus.FAILED
IsFailed(nr) == nr.status = "FAILED"

AbortsRun_Never(node, nr) == FALSE

\* if node.is_critical: the failure ends the run
AbortsRun(node, nr) == IsFailed(nr) /\ node.is_critical

CountNode_SkipsUncounted(m, node, nr) ==
    IF IsFailed(nr) THEN [m EXCEPT !.steps_failed = @ + 1]
    ELSE [m EXCEPT !.steps_completed = @ + 1]

\* the counters after a node came back
CountNode(m, node, nr) ==
    IF IsFailed(nr)
    THEN IF node.is_critical
         THEN [m EXCEPT !.steps_failed = @ + 1]
         ELSE [m EXCEPT !.steps_failed = @ + 1, !.steps_skipped = @ + 1]
    ELSE [m EXCEPT !.steps_completed = @ + 1]

MergeOutput_AnyStatus(prev, nr) ==
    IF Truthy(nr.output) THEN Update(prev, nr.output.val) ELSE prev

\* if node_result.output: previous_outputs.update(node_result.output)
MergeOutput(prev, nr) ==
    IF IsFailed(nr) THEN prev
    ELSE IF Truthy(nr.output) THEN Update(prev, nr.output.val)
    ELSE prev

NextNode_Skips(i) == i + 2

NextNode_Repeats(i) == i

\* for node in workflow.nodes: the position of the node after node number i
NextNode(i) == i + 1

\* the engine code that runs when node.execute_async came back with nr
AfterNode(nr, exc) ==
    /\ pc = "in_node"
    /\ node_result' = nr
    /\ calls' = Append(calls, Event("ret", idx, node_ctx, nr, exc))
    /\ metrics' = CountNode(RecordMetrics(metrics, nodes[idx].name, nr), nodes[idx], nr)
    /\ IF AbortsRun(nodes[idx], nr)
       THEN /\ pc' = "error_hooks"
            /\ h' = 1
            /\ UNCHANGED <<idx, previous_outputs, node_results>>
       ELSE /\ previous_outputs' = MergeOutput(previous_outputs, nr)
            /\ node_results' = Append(node_results, nr)
            /\ idx' = NextNode(idx)
            /\ pc' = "loop"
            /\ h' = h
    /\ UNCHANGED not_engine_vars
    /\ UNCHANGED <<nodes, middleware, input_data, timeout, node_ctx, result, returned, hook_log>>

\* node.execute_async returns a NodeResult
NodeReturns(nr) == AfterNode(nr, "None")

\* node.execute_async raises an Exception
NodeRaises(msg) == AfterNode(ExceptionToResult(msg), msg)

\* one turn of the on_node_error loop
NodeErrorHook ==
    /\ pc = "error_hooks"
    /\ h <= Len(middleware)
    /\ hook_log' = Append(hook_log, HookCall("node_error", middleware[h], HookOutcome(middleware[h]),
                                             nodes[idx].name, "None"))
    /\ h' = AfterHook(h, HookOutcome(middleware[h]))
    /\ UNCHANGED not_engine_vars
    /\ UNCHANGED <<nodes, middleware, pc, input_data, timeout, idx, node_ctx, node_result,
                   previous_outputs, node_results, metrics, result, returned, calls>>

\* the WorkflowResult of a run a critical node ended
FailedResult(node, nr, m) ==
    WorkflowResult("FAILED", NoneOut,
                   [kind |-> "node_failed", node |-> node.name, detail |-> nr.error], m)

\* return WorkflowResult(status=FAILED, ...) of _execute_nodes
FailWorkflow ==
    /\ pc = "error_hooks"
    /\ h > Len(middleware)
    /\ result' = FailedResult(nodes[idx], node_result, metrics)
    /\ pc' = "end_hooks"
    /\ h' = 1
    /\ UNCHANGED not_engine_vars
    /\ UNCHANGED <<nodes, middleware, input_data, timeout, idx, node_ctx, node_result,
                   previous_outputs, node_results, metrics, returned, calls, hook_log>>

CompletedResult_AlwaysMap(prev, m) == WorkflowResult("COMPLETED", SomeOut(prev), NoError, m)

\* the WorkflowResult of a run that went through the whole list:
\* output=previous_outputs if previous_outputs else None
CompletedResult(prev, m) ==
    WorkflowResult("COMPLETED", IF DOMAIN prev # {} THEN SomeOut(prev) ELSE NoneOut, NoError, m)

\* return WorkflowResult(status=COMPLETED, ...) of _execute_nodes
CompleteWorkflow ==
    /\ pc = "loop"
    /\ idx > Len(nodes)
    /\ result' = CompletedResult(previous_outputs, metrics)
    /\ pc' = "end_hooks"
    /\ h' = 1
    /\ UNCHANGED not_engine_vars
    /\ UNCHANGED <<nodes, middleware, input_data, timeout, idx, node_ctx, node_result,
                   previous_outputs, node_results, metrics, returned, calls, hook_log>>

ResultAfterHook_FailsOnRaise(res, outcome) ==
    IF outcome = "raised" THEN [res EXCEPT !.status = "FAILED"] ELSE res

\* the result run_async holds after an on_workflow_end hook came back: the
\* hook's exception is logged and nothing else
ResultAfterHook(res, outcome) == res

\* one turn of the on_workflow_end loop
EndHook ==
    /\ pc = "end_hooks"
    /\ h <= Len(middleware)
    /\ hook_log' = Append(hook_log, HookCall("end", middleware[h], HookOutcome(middleware[h]),
                                             0, result.status))
    /\ h' = AfterHook(h, HookOutcome(middleware[h]))
    /\ result' = ResultAfterHook(result, HookOutcome(middleware[h]))
    /\ UNCHANGED not_engine_vars
    /\ UNCHANGED <<nodes, middleware, pc, input_data, timeout, idx, node_ctx, node_result,
                   previous_outputs, node_results, metrics, returned, calls>>

\* return result of run_async
Return ==
    /\ pc = "end_hooks"
    /\ h > Len(middleware)
    /\ returned' = result
    /\ pc' = "returned"
    /\ UNCHANGED not_engine_vars
    /\ UNCHANGED <<nodes, middleware, input_data, timeout, h, idx, node_ctx, node_result,
                   previous_outputs, node_results, metrics, result, calls, hook_log>>

\* The run is suspended inside awaited user code: a hook or a node.
Suspended ==
    \/ pc = "in_node"
    \/ pc \in {"start_hooks", "error_hooks", "end_hooks"} /\ h <= Len(middleware)

TimeoutResult_Failed ==
    WorkflowResult("FAILED", NoneOut, [kind |-> "timeout", node |-> 0, detail |-> "timed out"],
                   ExecutionMetrics)

\* except asyncio.TimeoutError: the WorkflowResult run makes
TimeoutResult ==
    WorkflowResult("TIMEOUT", NoneOut, [kind |-> "timeout", node |-> 0, detail |-> "timed out"],
                   ExecutionMetrics)

HookKind == IF pc = "start_hooks" THEN "start" ELSE IF pc = "end_hooks" THEN "end" ELSE "node_error"

DeadlineElapses_Abandons ==
    /\ timeout = "T"
    /\ Suspended
    /\ returned.status = "NONE"
    /\ returned' = TimeoutResult
    /\ UNCHANGED not_engine_vars
    /\ UNCHANGED <<nodes, middleware, pc, input_data, timeout, h, idx, node_ctx, node_result,
                   previous_outputs, node_results, metrics, result, calls, hook_log>>

\* asyncio.wait_for: the deadline passes while the run is suspended.  wait_for
\* cancels the run: CancelledError is thrown into the suspended await, no
\* `except Exception` of the engine catches it, and run returns TimeoutResult.
DeadlineElapses ==
    /\ timeout = "T"
    /\ Suspended
    /\ IF pc = "in_node"
       THEN /\ calls' = Append(calls, Event("cancel", idx, node_ctx, NoNodeResult, "CancelledError"))
            /\ hook_log' = hook_log
       ELSE /\ hook_log' = Append(hook_log, HookCall(HookKind, middleware[h], "cancelled",
                                                     IF pc = "error_hooks" THEN nodes[idx].name ELSE 0,
                                                     IF pc = "end_hooks" THEN result.status ELSE "None"))
            /\ calls' = calls
    /\ returned' = TimeoutResult
    /\ pc' = "timed_out"
    /\ UNCHANGED not_engine_vars
    /\ UNCHANGED <<nodes, middleware, input_data, timeout, h, idx, node_ctx, node_result,
                   previous_outputs, node_results, metrics, result>>

Next ==
    \/ \E b \in BOOLEAN : Use(b)
    \/ \E inp \in InputDatas : RunAsync(inp)
    \/ \E inp \in InputDatas, t \in {"None", "T"} : Run(inp, t)
    \/ StartHook
    \/ EnterNodes
    \/ InvokeNode
    \/ \E nr \in ReturnedResults(idx) : NodeReturns(nr)
    \/ \E msg \in ExceptionMessages : NodeRaises(msg)
    \/ NodeErrorHook
    \/ FailWorkflow
    \/ CompleteWorkflow
    \/ EndHook
    \/ Return
    \/ DeadlineElapses

Spec == Init /\ [][Next]_vars

\* SpecInput: the runs of an engine without middleware and without a deadline,
\* on the inputs of InputDatas and on inputs with list values.
NextInput ==
    \/ \E inp \in InputDatas \cup InputLists : RunAsync(inp)
    \/ EnterNodes
    \/ InvokeNode
    \/ \E nr \in ReturnedResults(idx) : NodeReturns(nr)
    \/ FailWorkflow
    \/ CompleteWorkflow
    \/ Return

SpecInput == Init /\ [][NextInput]_vars

\* ==================================================== ExpressionEvaluator
\* A value of an evaluation context: Str (above) or an integer.
IntVal(n) == [t |-> "int", n |-> n]

\* The syntax tree of an expression: a comparison of a name with a number.
Name(id) == [node |-> "Name", id |-> id]
Num(n) == [node |-> "Num", n |-> n]
Compare(left, op, right) == [node |-> "Compare", left |-> left, op |-> op, right |-> right]

\* The strings of the model that get sorted, in the order of Python's str
\* comparison.
Alphabetical == <<"a", "b", "missing_var", "mock", "my_llm", "openai", "text", "x", "y">>

sorted_Unfiltered(S) == Alphabetical

\* sorted(S) for a set (or the keys of a dict) of strings
sorted(S) == SelectSeq(Alphabetical, LAMBDA str : str \in S)

\* What evaluating an expression gives: a value, or ExpressionError.
Value(v) == [ok |-> TRUE, value |-> v, error |-> "None"]
ExpressionError(msg) == [ok |-> FALSE, value |-> FALSE, error |-> msg]
\* simpleeval's NameNotDefined; e.name is the name that was looked up.
NameNotDefined(name) == [ok |-> FALSE, value |-> FALSE, error |-> "NameNotDefined", name |-> name]

\* except NameNotDefined as e: available_vars = sorted(list(context.keys()))
UndefinedVariable(e, names) ==
    ExpressionError(<<"Variable ", e.name, " not found in context (available: ", sorted(DOMAIN names), ")">>)

\* except (SyntaxError, TypeError, ...) as e
EvaluationError(e) == ExpressionError(<<"Expression evaluation error: ", e>>)

\* eval_context = {**context.input_data, **context.previous_outputs}; the
\* values of previous_outputs are the integers the nodes wrote.
EvalContext(ctx) ==
    [k \in (DOMAIN ctx.input_data) \cup (DOMAIN ctx.previous_outputs) |->
        IF k \in DOMAIN ctx.previous_outputs THEN IntVal(ctx.previous_outputs[k])
        ELSE ctx.input_data[k]]

\* The value of an operand: a name is looked up in names.
Operand(e, names) ==
    IF e.node = "Num" THEN Value(IntVal(e.n))
    ELSE IF e.id \in DOMAIN names THEN Value(names[e.id])
    ELSE NameNotDefined(e.id)

evaluate_UndefinedIsFalse(expression, names) ==
    LET l == Operand(expression.left, names)
        r == Operand(expression.right, names)
    IN  IF ~l.ok \/ ~r.ok THEN Value(FALSE)
        ELSE IF l.value.t # "int" \/ r.value.t # "int" THEN EvaluationError("TypeError")
        ELSE Value(l.value.n > r.value.n)

\* ExpressionEvaluator.evaluate for a comparison `left > right`: NameNotDefined
\* and TypeError (a str compared with an int) become ExpressionError.
evaluate(expression, names) ==
    LET l == Operand(expression.left, names)
        r == Operand(expression.right, names)
    IN  IF ~l.ok THEN UndefinedVariable(l, names)
        ELSE IF ~r.ok THEN UndefinedVariable(r, names)
        ELSE IF l.value.t # "int" \/ r.value.t # "int" THEN EvaluationError("TypeError")
        ELSE Value(l.value.n > r.value.n)

\* The names an expression or a context may hold.
VariableNames == {"x", "y", "missing_var"}

\* The expressions handed to evaluate: `left > right` over names and numbers.
Operands == {Name(id) : id \in VariableNames} \cup {Num(10)}
Expressions == {Compare(l, ">", r) : l \in Operands, r \in Operands}

\* The contexts handed to evaluate: some of the names, bound to 5 or to 10.
Contexts ==
    UNION {[S -> {IntVal(5), IntVal(10)}] : S \in SUBSET VariableNames}

InitEval ==
    /\ NoRuns
    /\ NoChecks
    /\ NoNesting
    /\ NoEngine
    /\ NoConditional
    /\ NoBridge
    /\ NoLLMNode
    /\ NoTracker
    /\ NoRetry
    /\ NoClassified
    /\ NoWorkflow
    /\ NoRegistry
    /\ evaluations = <<>>

\* ExpressionEvaluator.evaluate(expression, context)
Evaluate(expression, names) ==
    /\ Len(evaluations) < MaxEvaluations
    /\ evaluations' = Append(evaluations,
            [expression |-> expression, context |-> names, result |-> evaluate(expression, names)])
    /\ UNCHANGED not_eval_vars

NextEval == \E expression \in Expressions : \E names \in Contexts : Evaluate(expression, names)

SpecEval == InitEval /\ [][NextEval]_vars

\* ------------------------------------------------- the expression language
\* The forms an expression string can have, each with an instance.  The
\* first six are the documented language of conditions.
ConditionForms ==
    {"x > 10", "type in ['email', 'sms']", "x > 5 and not active", "priority", "5 > 3",
     "len(items) > 0"}
ArithmeticForms == {"x + 1", "x ** 2"}
ExpressionSyntaxForms == {"lambda: 1", "x.real", "'a'.upper()", "open('f')"}
StatementForms == {"x = 1", "import os"}
InvalidSyntaxForms == {"x + * 10", "if x > 10:"}
EmptyForms == {"", "   "}
ExpressionStrings ==
    ConditionForms \cup ArithmeticForms \cup ExpressionSyntaxForms \cup StatementForms
        \cup InvalidSyntaxForms \cup EmptyForms

\* evaluator.parse(expression): "checks syntax only".  An expression that is
\* no valid syntax raises; one that is valid expression syntax is parsed,
\* whatever it uses.  What the library makes of a statement is its own.
parse(expression) ==
    IF expression \in InvalidSyntaxForms THEN {"SyntaxError"}
    ELSE IF expression \in StatementForms THEN {"None", "InvalidExpression"}
    ELSE {"None"}

\* ExpressionEvaluator.validate_expression: what the call can end with,
\* "None" when it returns
validate_expression(expression) ==
    IF expression \in EmptyForms THEN {"ExpressionError"}
    ELSE {IF raised = "None" THEN "None" ELSE "ExpressionError" : raised \in parse(expression)}

\* evaluator.eval(expression) with names=context and functions={"len": len},
\* MAX_STRING_LENGTH and MAX_POWER set: the documented language and the
\* arithmetic operators (which MAX_POWER limits) are evaluated; what the
\* library makes of the other forms is its own.
eval(expression) ==
    IF expression \in InvalidSyntaxForms THEN {"SyntaxError"}
    ELSE IF expression \in ConditionForms \cup ArithmeticForms THEN {"None"}
    ELSE {"None", "InvalidExpression"}

\* ExpressionEvaluator.evaluate on a context that binds the names used: what
\* the call can end with, "None" when it returns a value
evaluate_ends(expression) ==
    IF expression \in EmptyForms THEN {"ExpressionError"}
    ELSE {IF raised = "None" THEN "None" ELSE "ExpressionError" : raised \in eval(expression)}

InitSandbox ==
    /\ NoRuns
    /\ NoEngine
    /\ NoConditional
    /\ NoBridge
    /\ NoLLMNode
    /\ NoTracker
    /\ NoRetry
    /\ NoClassified
    /\ NoWorkflow
    /\ NoRegistry
    /\ NoEvaluation
    /\ NoNesting
    /\ checked = <<>>

Checked(op, expression, raised) == [op |-> op, expression |-> expression, raised |-> raised]

\* ExpressionEvaluator.validate_expression(expression)
ValidateExpression(expression) ==
    /\ Len(checked) < MaxChecks
    /\ \E raised \in validate_expression(expression) :
          checked' = Append(checked, Checked("validate_expression", expression, raised))
    /\ UNCHANGED not_sandbox_vars

\* ExpressionEvaluator.evaluate(expression, context)
EvaluateExpression(expression) ==
    /\ Len(checked) < MaxChecks
    /\ \E raised \in evaluate_ends(expression) :
          checked' = Append(checked, Checked("evaluate", expression, raised))
    /\ UNCHANGED not_sandbox_vars

NextSandbox ==
    \/ \E expression \in ExpressionStrings : ValidateExpression(expression)
    \/ \E expression \in ExpressionStrings : EvaluateExpression(expression)

SpecSandbox == InitSandbox /\ [][NextSandbox]_vars

\* ========================================================= ConditionalNode
\* self.condition: "x > 10"
condition == Compare(Name("x"), ">", Num(10))

\* The branches a ConditionalNode is constructed with: true_nodes is not
\* empty, false_nodes may be.  A child is named by its branch and position.
Branch(b, crit) == [i \in DOMAIN crit |-> [name |-> <<b, i>>, is_critical |-> crit[i]]]

Branches(n) == UNION {[1..m -> BOOLEAN] : m \in 0..n}

\* The contexts execute_async is called with.
CondContexts ==
    {NodeContext([k \in {"x"} |-> IntVal(42)], EmptyMap),
     NodeContext([k \in {"x"} |-> IntVal(5)], EmptyMap),
     NodeContext([k \in {"x"} |-> IntVal(5)], [k \in {"a", "x"} |-> IF k = "a" THEN 0 ELSE 42]),
     NodeContext([k \in {"x"} |-> IntVal(42)], [k \in {"x"} |-> 5]),
     NodeContext([k \in {"x"} |-> Str(<<"hello">>)], EmptyMap),
     NodeContext(InputHello, [k \in {"a"} |-> 0])}

InitCond ==
    /\ NoRuns
    /\ NoChecks
    /\ NoNesting
    /\ NoEvaluation
    /\ NoRegistry
    /\ NoWorkflow
    /\ NoClassified
    /\ NoRetry
    /\ NoTracker
    /\ nodes = <<>>
    /\ middleware = <<>>
    /\ pc = "none"
    /\ input_data = EmptyMap
    /\ timeout = "None"
    /\ h = 0
    /\ idx = 0
    /\ node_ctx = NoContext
    /\ node_result = NoNodeResult
    /\ previous_outputs = EmptyMap
    /\ node_results = <<>>
    /\ metrics = ExecutionMetrics
    /\ result = NoResult
    /\ returned = NoResult
    /\ calls = <<>>
    /\ hook_log = <<>>
    /\ \E t \in Branches(MaxChildren) \ {<<>>} :
       \E f \in Branches(MaxChildren - Len(t)) :
          /\ true_nodes = Branch("true", t)
          /\ false_nodes = Branch("false", f)
    /\ is_critical \in BOOLEAN
    /\ cpc = "idle"
    /\ given = NoContext
    /\ context = NoContext
    /\ branch_name = "None"
    /\ selected_nodes = <<>>
    /\ child = 0
    /\ accumulated_output = EmptyMap
    /\ total_token_usage = NoTok
    /\ usage_records = <<>>
    /\ total_ref = 0
    /\ cond_result = NoNodeResult
    /\ child_calls = <<>>
    /\ NoBridge
    /\ NoLLMNode

SelectBranch_AlwaysTrue(condition_result) == "true"

\* if condition_result: selected_nodes = self.true_nodes else self.false_nodes
SelectBranch(condition_result) == IF condition_result THEN "true" ELSE "false"

\* except ExpressionError as e: the NodeResult of a failed evaluation
ConditionFailed(msg) ==
    NodeResult("FAILED", NoneOut, [kind |-> "condition", node |-> <<>>, detail |-> msg], 1, NoTok)

\* execute_async up to its first await: the condition is evaluated and the
\* branch selected.
ExecuteAsync(ctx) ==
    /\ cpc = "idle"
    /\ given' = ctx
    /\ context' = ctx
    /\ LET condition_result == evaluate(condition, EvalContext(ctx)) IN
       IF ~condition_result.ok
       THEN /\ cond_result' = ConditionFailed(condition_result.error)
            /\ cpc' = "done"
            /\ UNCHANGED <<branch_name, selected_nodes, child, accumulated_output, total_token_usage,
                           usage_records, total_ref>>
       ELSE /\ branch_name' = SelectBranch(condition_result.value)
            /\ selected_nodes' = IF branch_name' = "true" THEN true_nodes ELSE false_nodes
            /\ accumulated_output' = EmptyMap
            /\ total_token_usage' = NoTok
            /\ usage_records' = <<>>
            /\ total_ref' = 0
            /\ child' = 1
            /\ cpc' = "branch"
            /\ UNCHANGED cond_result
    /\ UNCHANGED <<true_nodes, false_nodes, is_critical, child_calls>>
    /\ UNCHANGED not_cond_vars

\* An entry of the log child_calls.
ChildEvent(ev, node, ctx, res, exc) ==
    [ev |-> ev, node |-> node.name, ctx |-> ctx, res |-> res, exc |-> exc]

\* for node in selected_nodes: await node.execute_async(context)
InvokeChild ==
    /\ cpc = "branch"
    /\ child <= Len(selected_nodes)
    /\ child_calls' = Append(child_calls, ChildEvent("call", selected_nodes[child], context, NoNodeResult, "None"))
    /\ cpc' = "in_child"
    /\ UNCHANGED <<true_nodes, false_nodes, is_critical, given, context, branch_name,
                   selected_nodes, child, accumulated_output, total_token_usage,
                   usage_records, total_ref, cond_result>>
    /\ UNCHANGED not_cond_vars

ChildAborts_Never(node, nr) == FALSE

\* if node_result.status == NodeStatus.FAILED and node.is_critical
ChildAborts(node, nr) == nr.status = "FAILED" /\ node.is_critical

\* the NodeResult of a branch a critical child ended
ChildFailed(node, nr) ==
    NodeResult("FAILED", NoneOut, [kind |-> "child_failed", node |-> node.name, detail |-> nr.error],
               1, NoTok)

\* if node_result.output: accumulated_output.update(node_result.output)
Accumulate(acc, nr) == IF Truthy(nr.output) THEN Update(acc, nr.output.val) ELSE acc

\* "Aggregate token usage": the first usage is taken, later ones are added
Aggregate(total, nr) ==
    LET tu == nr.token_usage IN
    IF ~tu.some THEN total
    ELSE IF ~total.some THEN tu
    ELSE TokenUsage(total.prompt_tokens + tu.prompt_tokens,
                    total.completion_tokens + tu.completion_tokens,
                    total.total_tokens + tu.total_tokens,
                    total.model)

\* total_token_usage = node_result.token_usage: the name is bound to the
\* object the child returned (number new) when it was None
Bind(ref, new, nr) == IF nr.token_usage.some /\ ref = 0 THEN new ELSE ref

\* total_token_usage.prompt_tokens += ... : the object total_token_usage was
\* bound to before this child takes the sums
AddInPlace(records, ref, total) ==
    IF ref = 0 THEN records ELSE [records EXCEPT ![ref] = total]

\* the code of the child loop that runs when the child came back with nr
ChildReturns(nr) ==
    /\ cpc = "in_child"
    /\ child_calls' = Append(child_calls, ChildEvent("ret", selected_nodes[child], context, nr, "None"))
    /\ IF ChildAborts(selected_nodes[child], nr)
       THEN /\ cond_result' = ChildFailed(selected_nodes[child], nr)
            /\ cpc' = "done"
            /\ usage_records' = Append(usage_records, nr.token_usage)
            /\ UNCHANGED <<context, child, accumulated_output, total_token_usage, total_ref>>
       ELSE /\ accumulated_output' = Accumulate(accumulated_output, nr)
            /\ total_token_usage' = Aggregate(total_token_usage, nr)
            /\ total_ref' = Bind(total_ref, Len(usage_records) + 1, nr)
            /\ usage_records' = AddInPlace(Append(usage_records, nr.token_usage), total_ref,
                                           total_token_usage')
            /\ context' = [context EXCEPT !.previous_outputs = Update(@, accumulated_output')]
            /\ child' = child + 1
            /\ cpc' = "branch"
            /\ UNCHANGED cond_result
    /\ UNCHANGED <<true_nodes, false_nodes, is_critical, given, branch_name, selected_nodes>>
    /\ UNCHANGED not_cond_vars

\* except Exception as e: the NodeResult when a child's execute_async raised
ExecutionFailed(msg) ==
    NodeResult("FAILED", NoneOut, [kind |-> "execution", node |-> <<>>, detail |-> msg], 1, NoTok)

\* the child's execute_async raises an Exception: no handler in the loop, the
\* outer `except Exception` of execute_async returns
ChildRaises(msg) ==
    /\ cpc = "in_child"
    /\ child_calls' = Append(child_calls, ChildEvent("raise", selected_nodes[child], context, NoNodeResult, msg))
    /\ cond_result' = ExecutionFailed(msg)
    /\ cpc' = "done"
    /\ UNCHANGED <<true_nodes, false_nodes, is_critical, given, context, branch_name,
                   selected_nodes, child, accumulated_output, total_token_usage,
                   usage_records, total_ref>>
    /\ UNCHANGED not_cond_vars

\* the NodeResult of a branch that was run to its end
BranchCompleted(acc, total) == NodeResult("COMPLETED", SomeOut(acc), "None", 1, total)

\* "Success": return NodeResult(status=COMPLETED, output=accumulated_output)
CondReturn ==
    /\ cpc = "branch"
    /\ child > Len(selected_nodes)
    /\ cond_result' = BranchCompleted(accumulated_output, total_token_usage)
    /\ cpc' = "done"
    /\ UNCHANGED <<true_nodes, false_nodes, is_critical, given, context, branch_name,
                   selected_nodes, child, accumulated_output, total_token_usage,
                   usage_records, total_ref, child_calls>>
    /\ UNCHANGED not_cond_vars

NextCond ==
    \/ \E ctx \in CondContexts : ExecuteAsync(ctx)
    \/ InvokeChild
    \/ \E nr \in ReturnedResults(child) : ChildReturns(nr)
    \/ \E msg \in ExceptionMessages : ChildRaises(msg)
    \/ CondReturn

SpecCond == InitCond /\ [][NextCond]_vars

\* ================================================= nested ConditionalNodes
\* A tree of ConditionalNodes D deep.  The ConditionalNode at depth d has the
\* true branch [leaf, ConditionalNode at depth d + 1, leaf], the innermost
\* one [leaf, leaf].  The first leaf of a branch is critical (the default);
\* levels[d] holds is_critical of the ConditionalNode and of the last leaf.
\* Every condition is `x > 10` and is evaluated on the input {x: 42}.
Trees == UNION {[1..D -> [cond : BOOLEAN, last : BOOLEAN]] : D \in 1..MaxDepth}

\* Leaves are numbered in the order of the levels: 2d - 1 and 2d at depth d.
LeafNode(d, j, crit) == [kind |-> "leaf", name |-> 2 * (d - 1) + j, is_critical |-> crit]
CondNode(d) == [kind |-> "cond", name |-> <<"c", d>>, is_critical |-> levels[d].cond]

\* self.true_nodes of the ConditionalNode at depth d
TrueNodes(d) ==
    IF d < Len(levels)
    THEN <<LeafNode(d, 1, TRUE), CondNode(d + 1), LeafNode(d, 2, levels[d].last)>>
    ELSE <<LeafNode(d, 1, TRUE), LeafNode(d, 2, levels[d].last)>>

\* What a leaf returns: a TransformNode's COMPLETED with its output map, or
\* FAILED without output.
LeafResults(node) ==
    {NodeResult("COMPLETED", SomeOut([k \in {"a"} |-> node.name]), "None", 1, NoTok),
     NodeResult("COMPLETED", SomeOut([k \in {"b"} |-> node.name]), "None", 1, NoTok),
     NodeResult("FAILED", NoneOut, "err", 1, NoTok)}

InitNested ==
    /\ NoRuns
    /\ NoChecks
    /\ NoEngine
    /\ NoConditional
    /\ NoBridge
    /\ NoLLMNode
    /\ NoTracker
    /\ NoRetry
    /\ NoClassified
    /\ NoWorkflow
    /\ NoRegistry
    /\ NoEvaluation
    /\ max_nesting_depth \in 1..MaxDepth
    /\ levels \in Trees
    /\ shared_outputs = EmptyMap
    /\ stack = <<>>
    /\ npc = "idle"
    /\ pending = NoNodeResult
    /\ nest_result = NoNodeResult
    /\ nest_log = <<>>

\* A call of execute_async in progress.
Frame(d) == [level |-> d, child |-> 1, accumulated_output |-> EmptyMap]

\* An entry of nest_log: depth is the number of ConditionalNodes the node is
\* nested in, seen is context.previous_outputs at that moment.
NestEvent(ev, node, depth, res) ==
    [ev |-> ev, kind |-> node.kind, node |-> node.name, depth |-> depth,
     seen |-> shared_outputs, res |-> res]

Top == stack[Len(stack)]

\* the engine calls execute_async of the outermost ConditionalNode; its
\* condition holds and the true branch is selected
ExecuteOutermost ==
    /\ npc = "idle"
    /\ stack' = <<Frame(1)>>
    /\ nest_log' = Append(nest_log, NestEvent("call", CondNode(1), 0, NoNodeResult))
    /\ npc' = "loop"
    /\ UNCHANGED <<max_nesting_depth, levels, shared_outputs, pending, nest_result>>
    /\ UNCHANGED not_nest_vars

\* for node in selected_nodes: await node.execute_async(context) -- the child
\* is handed the context object itself; a ConditionalNode child starts its own
\* call of execute_async
InvokeNested ==
    /\ npc = "loop"
    /\ Top.child <= Len(TrueNodes(Top.level))
    /\ LET node == TrueNodes(Top.level)[Top.child] IN
       /\ nest_log' = Append(nest_log, NestEvent("call", node, Top.level, NoNodeResult))
       /\ IF node.kind = "cond"
          THEN stack' = Append(stack, Frame(Top.level + 1)) /\ npc' = "loop"
          ELSE stack' = stack /\ npc' = "in_leaf"
    /\ UNCHANGED <<max_nesting_depth, levels, shared_outputs, pending, nest_result>>
    /\ UNCHANGED not_nest_vars

\* a leaf's execute_async returns
LeafReturns(nr) ==
    /\ npc = "in_leaf"
    /\ UNCHANGED <<max_nesting_depth, levels, shared_outputs, stack, nest_result>>
    /\ pending' = nr
    /\ nest_log' = Append(nest_log, NestEvent("ret", TrueNodes(Top.level)[Top.child], Top.level, nr))
    /\ npc' = "deliver"
    /\ UNCHANGED not_nest_vars

\* return NodeResult(...) of the innermost call of execute_async: the result
\* goes to the child loop of the enclosing ConditionalNode, or to the engine
ReturnFrom(nr) ==
    /\ stack' = SubSeq(stack, 1, Len(stack) - 1)
    /\ nest_log' = Append(nest_log, NestEvent("ret", CondNode(Top.level), Top.level - 1, nr))
    /\ IF Len(stack) = 1
       THEN nest_result' = nr /\ pending' = NoNodeResult /\ npc' = "done"
       ELSE nest_result' = nest_result /\ pending' = nr /\ npc' = "deliver"

\* a leaf's execute_async raises: the `except Exception` of the enclosing
\* execute_async returns FAILED
LeafRaises(msg) ==
    /\ npc = "in_leaf"
    /\ ReturnFrom(ExecutionFailed(msg))
    /\ UNCHANGED <<max_nesting_depth, levels, shared_outputs>>
    /\ UNCHANGED not_nest_vars

\* the code of the child loop that runs when a child came back
ChildCameBack ==
    /\ npc = "deliver"
    /\ LET node == TrueNodes(Top.level)[Top.child] IN
       IF ChildAborts(node, pending)
       THEN /\ ReturnFrom(ChildFailed(node, pending))
            /\ UNCHANGED shared_outputs
       ELSE LET acc == Accumulate(Top.accumulated_output, pending) IN
            /\ stack' = [stack EXCEPT ![Len(stack)] =
                            [@ EXCEPT !.child = @ + 1, !.accumulated_output = acc]]
            /\ shared_outputs' = Update(shared_outputs, acc)
            /\ pending' = NoNodeResult
            /\ npc' = "loop"
            /\ UNCHANGED <<nest_result, nest_log>>
    /\ UNCHANGED <<max_nesting_depth, levels>>
    /\ UNCHANGED not_nest_vars

\* "Success": the branch was run to its end
BranchEnds ==
    /\ npc = "loop"
    /\ Top.child > Len(TrueNodes(Top.level))
    /\ ReturnFrom(BranchCompleted(Top.accumulated_output, NoTok))
    /\ UNCHANGED <<max_nesting_depth, levels, shared_outputs>>
    /\ UNCHANGED not_nest_vars

NextNested ==
    \/ ExecuteOutermost
    \/ InvokeNested
    \/ \E nr \in (IF npc = "in_leaf" THEN LeafResults(TrueNodes(Top.level)[Top.child]) ELSE {}) :
          LeafReturns(nr)
    \/ \E msg \in ExceptionMessages : LeafRaises(msg)
    \/ ChildCameBack
    \/ BranchEnds

SpecNested == InitNested /\ [][NextNested]_vars

\* ========================================================= concurrent runs
\* The runs: two calls of run_async on the same engine (without middleware)
\* and the same Workflow, with the same valid input.
Runs == {1, 2}

\* The Workflow the runs share: each node is a plain node or a ConditionalNode
\* with the condition `x > 10` and two children in its true branch, the first
\* of which is not critical.
SharedWorkflows ==
    UNION {[1..n -> [kind : {"leaf", "cond"}, is_critical : BOOLEAN]] : n \in 1..MaxShared}

SharedInput == [k \in {"x"} |-> IntVal(42)]

\* The node at position p of the Workflow, and child j of the ConditionalNode
\* at position p.  Nodes are named by numbers: 3p, and 3p + j for a child.
SharedNode(p) == [name |-> 3 * p, kind |-> shared_nodes[p].kind, is_critical |-> shared_nodes[p].is_critical]
SharedChild(p, j) == [name |-> 3 * p + j, kind |-> "leaf", is_critical |-> j = 2]

\* What the invocation of a plain node made by run r returns: the objects are
\* new for every invocation, and a value written is marked with the run.
RunResults(r, node) ==
    LET v == 10 * r + node.name IN
    {NodeResult("COMPLETED", SomeOut([k \in {"a"} |-> v]), "None", 1, TokenUsage(v, 1, v + 1, v)),
     NodeResult("COMPLETED", SomeOut([k \in {"b"} |-> v]), "None", 1, NoTok),
     NodeResult("FAILED", NoneOut, "err", 1, NoTok)}

\* The locals of a call of _execute_nodes, and of the call of
\* ConditionalNode.execute_async it may be in.
NoFrame ==
    [idx |-> 0, previous_outputs |-> EmptyMap, node_results |-> <<>>, metrics |-> ExecutionMetrics,
     node_ctx |-> NoContext, child |-> 0, accumulated_output |-> EmptyMap,
     total_token_usage |-> NoTok]

InitConcurrent ==
    /\ NoEngine
    /\ NoConditional
    /\ NoBridge
    /\ NoLLMNode
    /\ NoTracker
    /\ NoRetry
    /\ NoClassified
    /\ NoWorkflow
    /\ NoRegistry
    /\ NoEvaluation
    /\ NoNesting
    /\ NoChecks
    /\ shared_nodes \in SharedWorkflows
    /\ run_pc = [r \in Runs |-> "idle"]
    /\ frames = [r \in Runs |-> NoFrame]
    /\ run_results = [r \in Runs |-> NoResult]
    /\ run_calls = [r \in Runs |-> <<>>]

LocalsOf_OnEngine(r) == 1

\* previous_outputs, node_results, metrics and the loop variables are locals
\* of the call: every call of _execute_nodes has its own.
LocalsOf(r) == r

\* run_async is called: the input passes the safety check, there is no
\* middleware, _execute_nodes is entered and its locals are initialised
StartRun(r) ==
    /\ run_pc[r] = "idle"
    /\ _validate_input_data(SharedInput)
    /\ frames' = [frames EXCEPT ![LocalsOf(r)] = [NoFrame EXCEPT !.idx = 1]]
    /\ run_pc' = [run_pc EXCEPT ![r] = "loop"]
    /\ UNCHANGED <<shared_nodes, run_results, run_calls>>
    /\ UNCHANGED not_conc_vars

\* for node in workflow.nodes: the context is built and the node invoked; a
\* ConditionalNode evaluates its condition, which holds on the input, selects
\* the true branch and initialises its accumulators
InvokeShared(r) ==
    LET f == frames[LocalsOf(r)] IN
    /\ run_pc[r] = "loop"
    /\ f.idx <= Len(shared_nodes)
    /\ LET ctx == BuildContext(SharedInput, f.previous_outputs)
           node == SharedNode(f.idx)
       IN  /\ frames' = [frames EXCEPT ![LocalsOf(r)] =
                            [f EXCEPT !.node_ctx = ctx, !.child = 1,
                                      !.accumulated_output = EmptyMap,
                                      !.total_token_usage = NoTok]]
           /\ run_calls' = [run_calls EXCEPT ![r] =
                               Append(@, Event("call", node.name, ctx, NoNodeResult, "None"))]
           /\ run_pc' = [run_pc EXCEPT ![r] =
                            IF node.kind = "leaf" THEN "in_node" ELSE "branch"]
    /\ UNCHANGED <<shared_nodes, run_results>>
    /\ UNCHANGED not_conc_vars

\* the engine code that runs when the node at f.idx came back with nr, until
\* the next await or the return of run_async
AfterShared(r, f, log, nr) ==
    LET node == SharedNode(f.idx)
        m == CountNode(RecordMetrics(f.metrics, node.name, nr), node, nr)
    IN  /\ run_calls' = [run_calls EXCEPT ![r] =
                            Append(log, Event("ret", node.name, f.node_ctx, nr, "None"))]
        /\ IF AbortsRun(node, nr)
           THEN /\ frames' = [frames EXCEPT ![LocalsOf(r)] = [f EXCEPT !.metrics = m]]
                /\ run_results' = [run_results EXCEPT ![r] = FailedResult(node, nr, m)]
                /\ run_pc' = [run_pc EXCEPT ![r] = "returned"]
           ELSE /\ frames' = [frames EXCEPT ![LocalsOf(r)] =
                                 [f EXCEPT !.metrics = m,
                                           !.previous_outputs = MergeOutput(@, nr),
                                           !.node_results = Append(@, nr),
                                           !.idx = NextNode(@)]]
                /\ run_pc' = [run_pc EXCEPT ![r] = "loop"]
                /\ UNCHANGED run_results

\* a plain node's execute_async returns
SharedNodeReturns(r, nr) ==
    /\ run_pc[r] = "in_node"
    /\ AfterShared(r, frames[LocalsOf(r)], run_calls[r], nr)
    /\ UNCHANGED shared_nodes
    /\ UNCHANGED not_conc_vars

\* for node in selected_nodes: await node.execute_async(context)
InvokeSharedChild(r) ==
    LET f == frames[LocalsOf(r)] IN
    /\ run_pc[r] = "branch"
    /\ f.child <= 2
    /\ run_calls' = [run_calls EXCEPT ![r] =
                        Append(@, Event("call", SharedChild(f.idx, f.child).name, f.node_ctx,
                                        NoNodeResult, "None"))]
    /\ run_pc' = [run_pc EXCEPT ![r] = "in_child"]
    /\ UNCHANGED <<shared_nodes, frames, run_results>>
    /\ UNCHANGED not_conc_vars

\* the child loop of the ConditionalNode when a child came back; a critical
\* failure returns to the engine at once
SharedChildReturns(r, nr) ==
    LET f == frames[LocalsOf(r)]
        node == SharedChild(f.idx, f.child)
    IN  /\ run_pc[r] = "in_child"
        /\ IF ChildAborts(node, nr)
           THEN AfterShared(r, f, Append(run_calls[r], Event("ret", node.name, f.node_ctx, nr, "None")),
                            ChildFailed(node, nr))
           ELSE LET acc == Accumulate(f.accumulated_output, nr) IN
                /\ frames' = [frames EXCEPT ![LocalsOf(r)] =
                                 [f EXCEPT !.accumulated_output = acc,
                                           !.total_token_usage = Aggregate(@, nr),
                                           !.node_ctx.previous_outputs = Update(@, acc),
                                           !.child = @ + 1]]
                /\ run_calls' = [run_calls EXCEPT ![r] =
                                    Append(@, Event("ret", node.name, f.node_ctx, nr, "None"))]
                /\ run_pc' = [run_pc EXCEPT ![r] = "branch"]
                /\ UNCHANGED run_results
        /\ UNCHANGED shared_nodes
        /\ UNCHANGED not_conc_vars

\* the ConditionalNode has run its branch to the end and returns to the engine
SharedBranchEnds(r) ==
    LET f == frames[LocalsOf(r)] IN
    /\ run_pc[r] = "branch"
    /\ f.child > 2
    /\ AfterShared(r, f, run_calls[r], BranchCompleted(f.accumulated_output, f.total_token_usage))
    /\ UNCHANGED shared_nodes
    /\ UNCHANGED not_conc_vars

\* the node list is exhausted: _execute_nodes and run_async return
FinishRun(r) ==
    LET f == frames[LocalsOf(r)] IN
    /\ run_pc[r] = "loop"
    /\ f.idx > Len(shared_nodes)
    /\ run_results' = [run_results EXCEPT ![r] = CompletedResult(f.previous_outputs, f.metrics)]
    /\ run_pc' = [run_pc EXCEPT ![r] = "returned"]
    /\ UNCHANGED <<shared_nodes, frames, run_calls>>
    /\ UNCHANGED not_conc_vars

NextConcurrent ==
    \E r \in Runs :
        \/ StartRun(r)
        \/ InvokeShared(r)
        \/ \E nr \in (IF run_pc[r] = "in_node" THEN RunResults(r, SharedNode(frames[LocalsOf(r)].idx))
                      ELSE {}) : SharedNodeReturns(r, nr)
        \/ InvokeSharedChild(r)
        \/ \E nr \in (IF run_pc[r] = "in_child"
                      THEN RunResults(r, SharedChild(frames[LocalsOf(r)].idx, frames[LocalsOf(r)].child))
                      ELSE {}) : SharedChildReturns(r, nr)
        \/ SharedBranchEnds(r)
        \/ FinishRun(r)

SpecConcurrent == InitConcurrent /\ [][NextConcurrent]_vars

\* ================================================================ run_sync
\* What the calling thread is doing when it calls engine.run: nothing that
\* runs an event loop, running an event loop (a notebook, an async framework),
\* or running the loop of a run_async whose node makes the call.
Callers == {"plain", "loop", "run_async"}

\* The results the coroutine of a run can give.
BridgedResults == {CompletedResult(EmptyMap, ExecutionMetrics), InputValidationFailed}

InitSync ==
    /\ NoRuns
    /\ NoChecks
    /\ NoNesting
    /\ NoEvaluation
    /\ NoRegistry
    /\ NoWorkflow
    /\ NoClassified
    /\ NoRetry
    /\ NoTracker
    /\ nodes = <<>>
    /\ middleware = <<>>
    /\ pc = "none"
    /\ input_data = EmptyMap
    /\ timeout = "None"
    /\ h = 0
    /\ idx = 0
    /\ node_ctx = NoContext
    /\ node_result = NoNodeResult
    /\ previous_outputs = EmptyMap
    /\ node_results = <<>>
    /\ metrics = ExecutionMetrics
    /\ result = NoResult
    /\ returned = NoResult
    /\ calls = <<>>
    /\ hook_log = <<>>
    /\ NoConditional
    /\ caller \in Callers
    /\ spc = "idle"
    /\ wpc = "none"
    /\ running_loops = [t \in Threads |-> IF t = "caller" /\ caller # "plain" THEN 1 ELSE 0]
    /\ future = NoResult
    /\ coro = NoCoroutine
    /\ sync_result = NoResult
    /\ outer = IF caller = "run_async" THEN "in_node" ELSE "None"
    /\ NoLLMNode

get_running_loop_NeverFinds(thread) == FALSE

\* asyncio.get_running_loop() returns a loop (TRUE) or raises RuntimeError
get_running_loop(thread) == running_loops[thread] > 0

\* run_sync(coro) on the calling thread, for engine.run(..., timeout=t) of a
\* run that goes through n awaits: asyncio.run(coro) when no loop is running
\* on the thread (asyncio.run itself raises RuntimeError when one is), else
\* executor.submit(_run_in_new_loop, coro) and future.result().
run_sync(n, t) ==
    /\ spc = "idle"
    /\ IF ~get_running_loop("caller")
       THEN IF running_loops["caller"] > 0
            THEN /\ spc' = "RuntimeError"
                 /\ UNCHANGED <<coro, running_loops, wpc>>
            ELSE /\ spc' = "asyncio.run"
                 /\ coro' = [awaits |-> n, awaited |-> 0, timeout |-> t, on |-> "caller"]
                 /\ running_loops' = [running_loops EXCEPT !["caller"] = @ + 1]
                 /\ wpc' = wpc
       ELSE /\ spc' = "future.result"
            /\ wpc' = "submitted"
            /\ coro' = [awaits |-> n, awaited |-> 0, timeout |-> t, on |-> "None"]
            /\ UNCHANGED running_loops
    /\ UNCHANGED <<caller, future, sync_result, outer>>
    /\ UNCHANGED not_sync_vars

\* _run_in_new_loop on the worker thread: asyncio.new_event_loop(),
\* loop.run_until_complete(coro)
_run_in_new_loop ==
    /\ wpc = "submitted"
    /\ wpc' = "run_until_complete"
    /\ running_loops' = [running_loops EXCEPT !["worker"] = @ + 1]
    /\ coro' = [coro EXCEPT !.on = "worker"]
    /\ UNCHANGED <<caller, spc, future, sync_result, outer>>
    /\ UNCHANGED not_sync_vars

\* The loop that drives the coroutine is running on a thread that is free to
\* run it: the thread is inside asyncio.run or inside run_until_complete.
Driven ==
    \/ coro.on = "caller" /\ spc = "asyncio.run"
    \/ coro.on = "worker" /\ wpc = "run_until_complete"

\* the coroutine goes through one of its awaits
CoroutineStep ==
    /\ Driven
    /\ coro.awaits > 0
    /\ coro' = [coro EXCEPT !.awaits = @ - 1, !.awaited = @ + 1]
    /\ UNCHANGED <<caller, spc, wpc, running_loops, future, sync_result, outer>>
    /\ UNCHANGED not_sync_vars

\* the coroutine is done with res: the loop is closed, and asyncio.run returns
\* res on the calling thread or the worker sets it as the future's result
CoroutineDone(res) ==
    /\ Driven
    /\ running_loops' = [running_loops EXCEPT ![coro.on] = @ - 1]
    /\ coro' = [coro EXCEPT !.on = "done"]
    /\ IF coro.on = "caller"
       THEN /\ sync_result' = res
            /\ spc' = "returned"
            /\ UNCHANGED <<wpc, future>>
       ELSE /\ future' = res
            /\ wpc' = "finished"
            /\ UNCHANGED <<spc, sync_result>>
    /\ UNCHANGED <<caller, outer>>
    /\ UNCHANGED not_sync_vars

\* run_async returns its result after its last await
CoroutineReturns(res) ==
    /\ coro.awaits = 0
    /\ CoroutineDone(res)

\* _with_timeout: the deadline passes at an await of the run
CoroutineTimesOut ==
    /\ coro.awaits > 0
    /\ coro.timeout = "T"
    /\ CoroutineDone(TimeoutResult)

\* return future.result(), and the executor is shut down
FutureResult ==
    /\ spc = "future.result"
    /\ wpc = "finished"
    /\ sync_result' = future
    /\ spc' = "returned"
    /\ wpc' = "joined"
    /\ UNCHANGED <<caller, running_loops, future, coro, outer>>
    /\ UNCHANGED not_sync_vars

\* the node of the outer run_async that called run goes on with the result
OuterResumes ==
    /\ outer = "in_node"
    /\ spc = "returned"
    /\ outer' = "resumed"
    /\ UNCHANGED <<caller, spc, wpc, running_loops, future, coro, sync_result>>
    /\ UNCHANGED not_sync_vars

NextSync ==
    \/ \E n \in 0..MaxAwaits, t \in {"None", "T"} : run_sync(n, t)
    \/ _run_in_new_loop
    \/ CoroutineStep
    \/ \E res \in BridgedResults : CoroutineReturns(res)
    \/ CoroutineTimesOut
    \/ FutureResult
    \/ OuterResumes

\* The worker thread is scheduled, the loop that drives the coroutine runs
\* it, and the awaits of the run come back.
SpecSync ==
    /\ InitSync
    /\ [][NextSync]_vars
    /\ WF_vars(_run_in_new_loop)
    /\ WF_vars(CoroutineStep)
    /\ WF_vars(\E res \in BridgedResults : CoroutineReturns(res))
    /\ WF_vars(FutureResult)
    /\ WF_vars(OuterResumes)

\* ================================================================= LLMNode
\* The prompt templates: the {placeholders} of the template, in order.
PromptTemplates == {<<>>, <<"text">>, <<"a">>, <<"text", "a">>, <<"b", "a">>}

\* The middleware registered with the engine of the run; a broken one raises
\* from the hooks it implements (AbortError from before_llm_call).
RegisteredMiddleware ==
    {[j \in DOMAIN f |-> [id |-> j, broken |-> f[j]]] : f \in UNION {[1..n -> BOOLEAN] : n \in 0..2}}

\* The contexts the engine invokes the node with.
LLMContexts == {NodeContext(InputHello, EmptyMap), NodeContext(InputHello, [k \in {"a"} |-> 1])}

InitLLM ==
    /\ NoRuns
    /\ NoChecks
    /\ NoNesting
    /\ NoEvaluation
    /\ NoWorkflow
    /\ NoClassified
    /\ NoRetry
    /\ NoTracker
    /\ nodes = <<>>
    /\ middleware \in RegisteredMiddleware
    /\ pc = "in_node"
    /\ input_data = InputHello
    /\ timeout = "None"
    /\ h = 0
    /\ idx = 0
    /\ node_ctx = NoContext
    /\ node_result = NoNodeResult
    /\ previous_outputs = EmptyMap
    /\ node_results = <<>>
    /\ metrics = ExecutionMetrics
    /\ result = NoResult
    /\ returned = NoResult
    /\ calls = <<>>
    /\ hook_log = <<>>
    /\ NoConditional
    /\ NoBridge
    /\ prompt_template \in PromptTemplates
    /\ _providers \in {EmptyMap, Builtins}
    /\ registry_log = <<>>
    /\ lpc = "idle"
    /\ llm_context = NoContext
    /\ request = NoRequest
    /\ provider_calls = <<>>
    /\ llm_hook_log = <<>>
    /\ llm_result = NoNodeResult

\* variables = {**context.input_data, **context.previous_outputs}
Variables(ctx) ==
    [k \in (DOMAIN ctx.input_data) \cup (DOMAIN ctx.previous_outputs) |->
        IF k \in DOMAIN ctx.previous_outputs THEN IntVal(ctx.previous_outputs[k])
        ELSE ctx.input_data[k]]

format_map_Lenient(template, variables) ==
    [ok |-> TRUE, key |-> "None",
     prompt |-> [i \in DOMAIN template |->
                    IF template[i] \in DOMAIN variables THEN variables[template[i]] ELSE Str(<<>>)]]

\* self.prompt_template.format_map(variables): the values put in place of the
\* placeholders, or KeyError(key) for the first placeholder that is no
\* variable
format_map(template, variables) ==
    LET missing == {i \in DOMAIN template : template[i] \notin DOMAIN variables} IN
    IF missing # {}
    THEN [ok |-> FALSE, key |-> template[CHOOSE i \in missing : \A j \in missing : i <= j],
          prompt |-> <<>>]
    ELSE [ok |-> TRUE, key |-> "None",
          prompt |-> [i \in DOMAIN template |-> variables[template[i]]]]

\* The NodeResult of a failed LLMNode; the error message is kept in its parts
LLMFailed(msg) == NodeResult("FAILED", NoneOut, msg, 1, NoTok)

\* provider_name = self.provider_name or context.config.provider or "openai"
provider_name == "openai"

\* execute_async up to its await: the prompt is rendered, the provider looked
\* up, the request built and handed to provider.complete_async.  No hook of
\* the engine's middleware is invoked: the node is not given the middleware.
LLMExecuteAsync(ctx) ==
    /\ lpc = "idle"
    /\ llm_context' = ctx
    /\ LET rendered == format_map(prompt_template, Variables(ctx)) IN
       IF ~rendered.ok
       THEN /\ llm_result' = LLMFailed(<<"Missing template variable: ", rendered.key>>)
            /\ lpc' = "done"
            /\ UNCHANGED <<request, provider_calls>>
       ELSE IF provider_name \notin DOMAIN _providers
       THEN /\ llm_result' = LLMFailed(<<"PluginNotFoundError">>)
            /\ lpc' = "done"
            /\ UNCHANGED <<request, provider_calls>>
       ELSE /\ request' = [prompt |-> rendered.prompt, model |-> "gpt-4o-mini"]
            /\ provider_calls' = Append(provider_calls, request')
            /\ lpc' = "in_provider"
            /\ UNCHANGED llm_result
    /\ UNCHANGED <<prompt_template, _providers, llm_hook_log>>
    /\ UNCHANGED not_llm_vars

\* The LLMResponse of a provider: content and usage
LLMResponses ==
    {[content |-> c, usage |-> TokenUsage(p, 1, p + 1, 1)] : c \in {"", "answer"}, p \in {0, 2}}

\* The NodeResult of a completed LLMNode
LLMCompleted(response) ==
    NodeResult("COMPLETED",
               SomeOut([k \in {"llm_output", "llm_response"} |-> response.content]),
               "None", 1, response.usage)

\* response = await provider.complete_async(request) comes back
ProviderReturns(response) ==
    /\ lpc = "in_provider"
    /\ llm_result' = LLMCompleted(response)
    /\ lpc' = "done"
    /\ UNCHANGED <<prompt_template, _providers, llm_context, request, provider_calls, llm_hook_log>>
    /\ UNCHANGED not_llm_vars

\* What complete_async of the registered provider raises, by exception
\* class: the ProviderError of a provider that gave up, or the rate-limit
\* error of the API a custom provider calls.
ProviderFailures == {"ProviderError", "RateLimitError"}

\* WorkflowConfig / FrameworkConfig: max_retry_attempts, by default
max_retry_attempts == 3

\* provider.complete_async raises: except Exception as e
ProviderRaises(msg) ==
    /\ lpc = "in_provider"
    /\ llm_result' = LLMFailed(<<msg>>)
    /\ lpc' = "done"
    /\ UNCHANGED <<prompt_template, _providers, llm_context, request, provider_calls, llm_hook_log>>
    /\ UNCHANGED not_llm_vars

NextLLM ==
    \/ \E ctx \in LLMContexts : LLMExecuteAsync(ctx)
    \/ \E response \in LLMResponses : ProviderReturns(response)
    \/ \E msg \in ProviderFailures : ProviderRaises(msg)

SpecLLM == InitLLM /\ [][NextLLM]_vars

\* ======================================================== token accounting
\* TokenUsage.validate_total: total_tokens == prompt_tokens + completion_tokens
validate_total(tu) == tu.total_tokens = tu.prompt_tokens + tu.completion_tokens

\* What a node reports: no usage (None) or a TokenUsage, which its constructor
\* validated.
UsageValues ==
    {tu \in {NoTok, TokenUsage(1, 1, 2, "m1"), TokenUsage(2, 0, 2, "m2")} : validate_total(tu)}

InitTokens ==
    /\ NoRuns
    /\ NoChecks
    /\ NoNesting
    /\ NoEvaluation
    /\ NoEngine
    /\ NoRegistry
    /\ NoWorkflow
    /\ NoConditional
    /\ NoBridge
    /\ NoLLMNode
    /\ NoRetry
    /\ NoClassified
    /\ usages \in UNION {[1..n -> UsageValues] : n \in 1..MaxUsages}
    /\ recorded = <<>>
    /\ _total = NoTok
    /\ _node_usage = EmptyMap
    /\ engine_recorded = <<>>
    /\ token_metrics = ExecutionMetrics

Range(f) == {f[i] : i \in DOMAIN f}

_accumulate_KeepsLatest(total, usage) == usage

\* TokenUsageTracker._accumulate: the first usage is taken, later ones are
\* added into a new TokenUsage carrying the model of the latest
_accumulate(total, usage) ==
    IF ~total.some THEN usage
    ELSE TokenUsage(total.prompt_tokens + usage.prompt_tokens,
                    total.completion_tokens + usage.completion_tokens,
                    total.total_tokens + usage.total_tokens,
                    usage.model)

\* tracker.record(node_name, usage), for a node that reported a usage
record(i) ==
    /\ i \in DOMAIN usages
    /\ i \notin Range(recorded)
    /\ usages[i].some
    /\ _node_usage' = Update(_node_usage, [k \in {i} |-> usages[i]])
    /\ _total' = _accumulate(_total, usages[i])
    /\ recorded' = Append(recorded, i)
    /\ UNCHANGED <<usages, engine_recorded, token_metrics>>
    /\ UNCHANGED not_tracker_vars

\* "Record metrics" of _execute_nodes for the result of node i
RecordNode(i) ==
    /\ i \in DOMAIN usages
    /\ i \notin Range(engine_recorded)
    /\ token_metrics' = RecordMetrics(token_metrics, i, NodeResult("COMPLETED", NoneOut, "None", 1, usages[i]))
    /\ engine_recorded' = Append(engine_recorded, i)
    /\ UNCHANGED <<usages, recorded, _total, _node_usage>>
    /\ UNCHANGED not_tracker_vars

NextTokens ==
    \/ \E i \in 1..MaxUsages : record(i)
    \/ \E i \in 1..MaxUsages : RecordNode(i)

SpecTokens == InitTokens /\ [][NextTokens]_vars

\* ============================================================ retry policy
\* The exceptions of the OpenAI SDK, with the status code the SDK raises each
\* for; the connection errors carry none.
OpenAIErrors ==
    {Exc("RateLimitError", 429), Exc("APITimeoutError", 0), Exc("APIConnectionError", 0),
     Exc("InternalServerError", 500), Exc("InternalServerError", 503),
     Exc("AuthenticationError", 401), Exc("PermissionDeniedError", 403),
     Exc("BadRequestError", 400), Exc("NotFoundError", 404),
     Exc("UnprocessableEntityError", 422)}

\* isinstance(exc, cls): APITimeoutError derives from APIConnectionError
isinstance(exc, cls) ==
    \/ exc.cls = cls
    \/ exc.cls = "APITimeoutError" /\ cls = "APIConnectionError"

\* getattr(exc, "status_code", None) is not None
HasStatusCode(exc) == exc.status_code # 0

\* is_retryable_error: the SDK's exception types first, then the status code
is_retryable_error(exc) ==
    IF isinstance(exc, "RateLimitError") THEN TRUE
    ELSE IF isinstance(exc, "APITimeoutError") THEN TRUE
    ELSE IF isinstance(exc, "InternalServerError") THEN TRUE
    ELSE IF isinstance(exc, "APIConnectionError") THEN TRUE
    ELSE IF isinstance(exc, "AuthenticationError") \/ isinstance(exc, "PermissionDeniedError") THEN FALSE
    ELSE IF isinstance(exc, "BadRequestError") THEN FALSE
    ELSE IF HasStatusCode(exc) /\ exc.status_code = 429 THEN TRUE
    ELSE IF HasStatusCode(exc) /\ exc.status_code >= 500 THEN TRUE
    ELSE FALSE

stop_after_attempt_OneMore(n, attempt) == attempt > n

\* stop=stop_after_attempt(max_attempts)
stop_after_attempt(n, attempt) == attempt >= n

\* AsyncRetrying(stop, wait, retry=retry_if_exception(is_retryable_error),
\* reraise=True): after a raised attempt the loop goes on when the exception
\* is retryable and the stop condition does not hold; otherwise the
\* exception is re-raised as it is
build_retry(n, attempt, exc) == is_retryable_error(exc) /\ ~stop_after_attempt(n, attempt)

\* _handle_error: the framework exception raised from exc
_handle_error(exc) ==
    IF isinstance(exc, "AuthenticationError") \/ isinstance(exc, "PermissionDeniedError")
    THEN ProviderResult("ProviderAuthError", exc)
    ELSE ProviderResult("ProviderError", exc)

\* What _call_api can raise: the errors of the SDK's client, and an error of
\* the code that builds the LLMResponse from the completion.
ApiErrors == OpenAIErrors \cup {Exc("ValueError", 0)}

InitRetry ==
    /\ NoRuns
    /\ NoChecks
    /\ NoNesting
    /\ NoEvaluation
    /\ NoEngine
    /\ NoRegistry
    /\ NoWorkflow
    /\ NoConditional
    /\ NoBridge
    /\ NoLLMNode
    /\ NoTracker
    /\ NoClassified
    /\ max_attempts \in 1..MaxAttempts
    /\ attempt_number = 0
    /\ rpc = "idle"
    /\ api_calls = <<>>
    /\ provider_result = NoProviderResult

\* complete_async up to its first await: the retry loop is entered and
\* _call_api called for the first attempt
complete_async ==
    /\ rpc = "idle"
    /\ attempt_number' = 1
    /\ api_calls' = <<Outcome("pending", NoExc)>>
    /\ rpc' = "in_api"
    /\ UNCHANGED <<max_attempts, provider_result>>
    /\ UNCHANGED not_retry_vars

\* with attempt: return await self._call_api(request) gives the response
ApiReturns ==
    /\ rpc = "in_api"
    /\ api_calls' = [api_calls EXCEPT ![attempt_number] = Outcome("returned", NoExc)]
    /\ provider_result' = ProviderResult("LLMResponse", NoExc)
    /\ rpc' = "done"
    /\ UNCHANGED <<max_attempts, attempt_number>>
    /\ UNCHANGED not_retry_vars

\* _call_api raises exc: the retry policy decides between the backoff before
\* another attempt and re-raising exc into `except Exception`
ApiRaises(exc) ==
    /\ rpc = "in_api"
    /\ api_calls' = [api_calls EXCEPT ![attempt_number] = Outcome("raised", exc)]
    /\ IF build_retry(max_attempts, attempt_number, exc)
       THEN /\ rpc' = "backoff"
            /\ UNCHANGED provider_result
       ELSE /\ provider_result' = _handle_error(exc)
            /\ rpc' = "done"
    /\ UNCHANGED <<max_attempts, attempt_number>>
    /\ UNCHANGED not_retry_vars

\* the wait of wait_exponential is over: the next attempt calls _call_api
NextAttempt ==
    /\ rpc = "backoff"
    /\ attempt_number' = attempt_number + 1
    /\ api_calls' = Append(api_calls, Outcome("pending", NoExc))
    /\ rpc' = "in_api"
    /\ UNCHANGED <<max_attempts, provider_result>>
    /\ UNCHANGED not_retry_vars

NextRetry ==
    \/ complete_async
    \/ ApiReturns
    \/ \E exc \in ApiErrors : ApiRaises(exc)
    \/ NextAttempt

SpecRetry == InitRetry /\ [][NextRetry]_vars

\* --------------------------------------------------- is_retryable_error
\* Exceptions that are not the SDK's: a built-in timeout or connection error
\* (asyncio.TimeoutError, ConnectionError), an error of another HTTP client
\* that carries a status_code, an error without one.
OtherErrors ==
    {Exc("TimeoutError", 0), Exc("ConnectionError", 0), Exc("ValueError", 0)}
    \cup {Exc("Exception", sc) : sc \in {400, 401, 403, 404, 429, 500, 503}}

Failures == OpenAIErrors \cup OtherErrors

InitClassify ==
    /\ NoRuns
    /\ NoChecks
    /\ NoNesting
    /\ NoEvaluation
    /\ NoEngine
    /\ NoRegistry
    /\ NoWorkflow
    /\ NoConditional
    /\ NoBridge
    /\ NoLLMNode
    /\ NoTracker
    /\ NoRetry
    /\ classified = <<>>

\* retry_if_exception(is_retryable_error) is asked about exc
Classify(exc) ==
    /\ Len(classified) < MaxClassified
    /\ classified' = Append(classified, [exc |-> exc, retryable |-> is_retryable_error(exc)])
    /\ UNCHANGED not_classify_vars

NextClassify == \E exc \in Failures : Classify(exc)

SpecClassify == InitClassify /\ [][NextClassify]_vars

\* ================================================== Workflow construction
\* The names of the nodes handed to Workflow: "" is the empty name.
NodeNames == {"", "s1", "s2", "s3"}

InitWorkflow ==
    /\ NoRuns
    /\ NoChecks
    /\ NoNesting
    /\ NoEvaluation
    /\ NoEngine
    /\ NoRegistry
    /\ NoConditional
    /\ NoBridge
    /\ NoLLMNode
    /\ NoTracker
    /\ NoRetry
    /\ NoClassified
    /\ node_list \in UNION {[1..n -> NodeNames] : n \in 0..MaxNames}
    /\ wf_state = "idle"
    /\ wf_nodes = <<>>
    /\ wf_error = "None"

_validate_nodes_NoDuplicateCheck(ns) ==
    IF \E i \in DOMAIN ns : ns[i] = ""
    THEN "All workflow nodes must have a non-empty name." ELSE "None"

\* Workflow._validate_nodes: the message of the ValueError raised for the
\* first node, in list order, whose name is empty or was seen before; "None"
\* when the loop ends
_validate_nodes(ns) ==
    LET bad == {i \in DOMAIN ns : ns[i] = "" \/ \E j \in 1..(i - 1) : ns[j] = ns[i]} IN
    IF bad = {} THEN "None"
    ELSE LET i == CHOOSE i \in bad : \A j \in bad : i <= j IN
         IF ns[i] = "" THEN "All workflow nodes must have a non-empty name."
         ELSE "Duplicate node name"

\* Workflow.__init__(nodes)
NewWorkflow ==
    /\ wf_state = "idle"
    /\ IF node_list = <<>>
       THEN /\ wf_state' = "ValueError"
            /\ wf_error' = "Workflow must have at least one node."
            /\ UNCHANGED wf_nodes
       ELSE IF _validate_nodes(node_list) # "None"
       THEN /\ wf_state' = "ValueError"
            /\ wf_error' = _validate_nodes(node_list)
            /\ UNCHANGED wf_nodes
       ELSE /\ wf_state' = "constructed"
            /\ wf_nodes' = node_list
            /\ UNCHANGED wf_error
    /\ UNCHANGED node_list
    /\ UNCHANGED not_ctor_vars

NextWorkflow == NewWorkflow

SpecWorkflow == InitWorkflow /\ [][NextWorkflow]_vars

\* ========================================================= PluginRegistry
ProviderNames == {"openai", "mock", "my_llm"}

\* What register_provider is handed: an LLMProvider instance, an LLMProvider
\* subclass, a class that is no LLMProvider, another object.
Providers ==
    {[kind |-> "instance", id |-> "P1"], [kind |-> "instance", id |-> "P2"],
     [kind |-> "subclass", id |-> "MyProvider"], [kind |-> "class", id |-> "dict"],
     [kind |-> "object", id |-> "'x'"]}

\* An entry of registry_log: the call and what it returned or raised.
RegistryCall(op, name, outcome, detail) ==
    [op |-> op, name |-> name, outcome |-> outcome, detail |-> detail]

InitRegistry ==
    /\ NoRuns
    /\ NoChecks
    /\ NoNesting
    /\ NoEvaluation
    /\ NoEngine
    /\ NoConditional
    /\ NoBridge
    /\ NoLLMNode
    /\ NoTracker
    /\ NoRetry
    /\ NoClassified
    /\ NoWorkflow
    /\ _providers = Builtins
    /\ registry_log = <<>>

register_provider_Overwrites(name, provider) ==
    /\ Len(registry_log) < MaxRegistryCalls
    /\ provider.kind = "instance"
    /\ _providers' = Update(_providers, [n \in {name} |-> provider.id])
    /\ registry_log' = Append(registry_log,
            RegistryCall("register_provider", name,
                         IF name \in DOMAIN _providers THEN "PluginRegistrationError" ELSE "None", <<>>))
    /\ UNCHANGED not_registry_vars

\* PluginRegistry.register_provider(name, provider)
register_provider(name, provider) ==
    /\ Len(registry_log) < MaxRegistryCalls
    /\ IF name \in DOMAIN _providers
       THEN /\ registry_log' = Append(registry_log,
                    RegistryCall("register_provider", name, "PluginRegistrationError", <<>>))
            /\ UNCHANGED _providers
       ELSE IF provider.kind \in {"class", "object"}
       THEN /\ registry_log' = Append(registry_log,
                    RegistryCall("register_provider", name, "PluginRegistrationError", <<>>))
            /\ UNCHANGED _providers
       ELSE /\ _providers' = Update(_providers,
                    [n \in {name} |-> IF provider.kind = "subclass" THEN "MyProvider()" ELSE provider.id])
            /\ registry_log' = Append(registry_log, RegistryCall("register_provider", name, "None", <<>>))
    /\ UNCHANGED not_registry_vars

\* PluginRegistry.get_provider(name): the instance, or PluginNotFoundError
\* with the sorted registered names in its message
get_provider(name) ==
    /\ Len(registry_log) < MaxRegistryCalls
    /\ registry_log' = Append(registry_log,
            IF name \notin DOMAIN _providers
            THEN RegistryCall("get_provider", name, "PluginNotFoundError", sorted(DOMAIN _providers))
            ELSE RegistryCall("get_provider", name, _providers[name], <<>>))
    /\ UNCHANGED _providers
    /\ UNCHANGED not_registry_vars

\* PluginRegistry.unregister_provider(name)
unregister_provider(name) ==
    /\ Len(registry_log) < MaxRegistryCalls
    /\ _providers' = [n \in (DOMAIN _providers) \ {name} |-> _providers[n]]
    /\ registry_log' = Append(registry_log, RegistryCall("unregister_provider", name, "None", <<>>))
    /\ UNCHANGED not_registry_vars

NextRegistry ==
    \/ \E name \in ProviderNames, provider \in Providers : register_provider(name, provider)
    \/ \E name \in ProviderNames : get_provider(name)
    \/ \E name \in ProviderNames : unregister_provider(name)

SpecRegistry == InitRegistry /\ [][NextRegistry]_vars

\* ============================================================= termination
\* SpecTerminates: a run of run_async without deadline on an engine with any
\* registered middleware, or the execution of a tree of ConditionalNodes, or
\* a call of the provider under the retry policy -- with every awaited hook,
\* node and API call coming back and the event loop resuming the coroutine
\* that can go on.
InitTerminates == Init \/ (InitNested /\ max_nesting_depth = 1) \/ InitRetry

\* What a node comes back with, for the course of the run: a COMPLETED or a
\* FAILED result (or an exception, below).
CompletedOrFailed(i) == {nr \in ReturnedResults(i) : nr.token_usage # NoTok}

NextRunAsync ==
    \/ \E b \in BOOLEAN : Use(b)
    \/ \E inp \in InputDatas : RunAsync(inp)
    \/ StartHook
    \/ EnterNodes
    \/ InvokeNode
    \/ \E nr \in CompletedOrFailed(idx) : NodeReturns(nr)
    \/ \E msg \in ExceptionMessages : NodeRaises(msg)
    \/ NodeErrorHook
    \/ FailWorkflow
    \/ CompleteWorkflow
    \/ EndHook
    \/ Return

\* What a leaf of the tree comes back with, for the course of the run.
LeafCompletedOrFailed(node) ==
    {nr \in LeafResults(node) : nr.output \in {NoneOut, SomeOut([k \in {"a"} |-> node.name])}}

NextTree ==
    \/ ExecuteOutermost
    \/ InvokeNested
    \/ \E nr \in (IF npc = "in_leaf"
                  THEN LeafCompletedOrFailed(TrueNodes(Top.level)[Top.child])
                  ELSE {}) :
          LeafReturns(nr)
    \/ \E msg \in ExceptionMessages : LeafRaises(msg)
    \/ ChildCameBack
    \/ BranchEnds

NextTerminates == NextRunAsync \/ NextTree \/ NextRetry

\* Where the run is: every step of NextTerminates moves it.
position ==
    <<pc, h, idx, Len(calls), Len(hook_log), Len(middleware),
      npc, Len(stack), Len(nest_log), rpc, attempt_number, Len(api_calls)>>

SpecTerminates ==
    InitTerminates /\ [][NextTerminates]_vars /\ WF_position(NextTerminates)

\* ================================================================ claims
Rets == {k \in DOMAIN calls : calls[k].ev = "ret"}
FailedRets == {k \in Rets : calls[k].res.status = "FAILED"}
CriticalFailures == {k \in FailedRets : nodes[calls[k].node].is_critical}
IsolatedFailures == {k \in FailedRets : ~nodes[calls[k].node].is_critical}

\* The nodes that completed with key in their output before log entry k.
WritersBefore(key, k) ==
    {calls[j].node : j \in {j \in Rets : /\ j < k
                                         /\ calls[j].res.status = "COMPLETED"
                                         /\ calls[j].res.output.some
                                         /\ key \in DOMAIN calls[j].res.output.val}}

Max(S) == CHOOSE x \in S : \A y \in S : y <= x

\* The merge, in declaration order with later nodes overriding, of the outputs
\* of the nodes that completed before log entry k.
MergedBefore(k) ==
    [key \in {key \in Keys : WritersBefore(key, k) # {}} |->
        Max(WritersBefore(key, k))]

\* C1: when a critical top-level node ends FAILED the iteration stops: nothing
\* is invoked after it, the result of run_async is FAILED, names the failing
\* node and has no output, and that result is what run_async returns.
C1_CriticalFailureStops ==
    \A k \in CriticalFailures :
        /\ k = Len(calls)
        /\ pc \notin {"loop", "in_node"}
        /\ \A j \in DOMAIN calls : calls[j].node <= calls[k].node
        /\ result.status # "NONE" =>
              /\ result.status = "FAILED"
              /\ result.error.kind = "node_failed"
              /\ result.error.node = nodes[calls[k].node].name
              /\ result.output = NoneOut
        /\ pc = "returned" => returned.status = "FAILED" /\ returned = result

C1_Witness ==
    /\ pc = "returned"
    /\ returned.status = "FAILED"
    /\ \E k \in CriticalFailures : calls[k].node < Len(nodes)

\* C2: when a non-critical top-level node ends FAILED both the failed and the
\* skipped counter count it, nothing of it is merged into the accumulator and
\* the next node is invoked; a run without a critical failure ends COMPLETED
\* with the outputs of the later nodes in its result.
C2_IsolatedFailureContinues ==
    /\ metrics.steps_failed = Cardinality(FailedRets)
    /\ metrics.steps_skipped = Cardinality(IsolatedFailures)
    /\ \A k \in IsolatedFailures :
        LET i == calls[k].node IN
        /\ \A key \in DOMAIN previous_outputs : previous_outputs[key] # i
        /\ k < Len(calls) => calls[k + 1].ev = "call" /\ calls[k + 1].node = i + 1
        /\ k = Len(calls) /\ i < Len(nodes) => pc = "loop" /\ idx = i + 1
        /\ result.status # "NONE" /\ CriticalFailures = {} =>
              /\ result.status = "COMPLETED"
              /\ \A key \in Keys :
                    /\ result.output.some => \A kk \in DOMAIN result.output.val : result.output.val[kk] # i
                    /\ (\E w \in WritersBefore(key, Len(calls) + 1) : w > i) =>
                          /\ result.output.some
                          /\ key \in DOMAIN result.output.val
                          /\ result.output.val[key] = Max(WritersBefore(key, Len(calls) + 1))

C2_Witness ==
    /\ pc = "returned"
    /\ returned.status = "COMPLETED"
    /\ \E k \in IsolatedFailures :
          /\ calls[k].res.output.some
          /\ \E key \in Keys : \E w \in WritersBefore(key, Len(calls) + 1) : w > calls[k].node

\* C3: the top-level nodes are invoked in declaration order, one at a time:
\* the log alternates the invocation of node 1, its return, the invocation of
\* node 2, its return, ...; no node is invoked twice.
C3_SequentialInOrder ==
    \A k \in DOMAIN calls :
        /\ calls[k].node = (k + 1) \div 2
        /\ calls[k].ev = IF k % 2 = 1 THEN "call"
                         ELSE IF calls[k].exc = "CancelledError" THEN "cancel" ELSE "ret"
        /\ calls[k].ev = "cancel" => k = Len(calls)

C3_Witness ==
    /\ Len(calls) = 6
    /\ calls[6].ev = "ret"
    /\ IsolatedFailures # {}

ListExhausted == Len(node_results) = Len(nodes)

\* C5 as claimed: a run that exhausts the node list without a critical failure
\* gives a COMPLETED result whose output is the final accumulator, the empty
\* map when no node produced any output.
C5_OutputIsAccumulator ==
    result.status # "NONE" /\ ListExhausted =>
        /\ result.status = "COMPLETED"
        /\ result.output = SomeOut(MergedBefore(Len(calls) + 1))

\* C5 amended: a run that exhausts the node list without a critical failure
\* gives a COMPLETED result without error whose output is the final accumulator
\* when that is not empty, and is absent (None) when no node produced any
\* output; run_async returns that result.
C5_CompletedOutput ==
    /\ result.status # "NONE" /\ ListExhausted =>
          LET merged == MergedBefore(Len(calls) + 1) IN
          /\ result.status = "COMPLETED"
          /\ result.error = NoError
          /\ previous_outputs = merged
          /\ result.output = IF DOMAIN merged = {} THEN NoneOut ELSE SomeOut(merged)
    /\ pc = "returned" /\ ListExhausted => returned = result /\ returned.status = "COMPLETED"

C5_Witness ==
    /\ pc = "returned"
    /\ ListExhausted
    /\ Len(nodes) >= 2
    /\ returned.status = "COMPLETED"
    /\ returned.output = NoneOut
    /\ \E k \in Rets : calls[k].res.status = "COMPLETED"

\* C6: an exception raised by a node's execute_async does not escape: it
\* becomes a FAILED result of that node carrying the exception's message, and
\* the run then goes on as for a returned FAILED result: a critical node ends
\* the run FAILED, naming the node and the message, a non-critical one is
\* counted and the next node is invoked; run_async returns a result.
C6_NodeFaultContained ==
    /\ \A k \in Rets :
          calls[k].exc # "None" =>
              LET i == calls[k].node IN
              /\ calls[k].res = NodeResult("FAILED", NoneOut, calls[k].exc, 0, NoTok)
              /\ metrics.steps_failed >= 1
              /\ IF nodes[i].is_critical
                 THEN /\ k = Len(calls)
                      /\ pc \in {"error_hooks", "end_hooks", "returned", "timed_out"}
                      /\ result.status # "NONE" =>
                            /\ result.status = "FAILED"
                            /\ result.error.node = nodes[i].name
                            /\ result.error.detail = calls[k].exc
                 ELSE /\ metrics.steps_skipped >= 1
                      /\ k < Len(calls) => calls[k + 1].ev = "call" /\ calls[k + 1].node = i + 1
                      /\ k = Len(calls) => pc \in {"loop", "end_hooks", "returned", "timed_out"}
                      /\ result.status # "NONE" /\ CriticalFailures = {} => result.status = "COMPLETED"
    /\ pc = "returned" /\ (\E k \in Rets : calls[k].exc # "None") =>
          returned = result /\ returned.status \in {"COMPLETED", "FAILED"}

C6_Witness ==
    /\ pc = "returned"
    /\ returned.status = "FAILED"
    /\ \E k \in IsolatedFailures : calls[k].exc = "boom"
    /\ \E k \in CriticalFailures : calls[k].exc = "boom"

EndHookCalls(j) == {k \in DOMAIN hook_log : hook_log[k].kind = "end" /\ hook_log[k].mw = j}

\* C8: whenever run_async has returned, on every terminal path (COMPLETED,
\* FAILED by a critical node, FAILED by the input safety check), the
\* on_workflow_end hook of each registered middleware was invoked exactly once.
C8_EndHooksExactlyOnce ==
    pc = "returned" /\ timeout = "None" =>
        \A j \in 1..Len(middleware) : Cardinality(EndHookCalls(j)) = 1

\* C9: when run(..., timeout=t) has returned a TIMEOUT result, the
\* on_workflow_end hook of every registered middleware was invoked for that run.
C9_EndHooksOnTimeout ==
    pc = "timed_out" /\ returned.status = "TIMEOUT" =>
        \A j \in 1..Len(middleware) : EndHookCalls(j) # {}

\* C10: when the deadline of run passes while the run is suspended inside a
\* node, the caller gets a TIMEOUT result (not FAILED) with no output and an
\* explanatory error, and no later node has been invoked; a run that finishes
\* before the deadline gives the caller its own result.
C10_DeadlineGivesTimeout ==
    /\ pc = "timed_out" =>
          /\ timeout = "T"
          /\ returned.status = "TIMEOUT"
          /\ returned.output = NoneOut
          /\ returned.error.kind = "timeout"
    /\ \A k \in DOMAIN calls :
          calls[k].ev = "cancel" =>
              /\ pc = "timed_out"
              /\ k = Len(calls)
              /\ \A j \in DOMAIN calls : calls[j].node <= calls[k].node
    /\ pc = "returned" => returned = result /\ returned.status \in {"COMPLETED", "FAILED"}
    /\ timeout = "None" => pc # "timed_out"

C10_Witness ==
    /\ pc = "timed_out"
    /\ Len(calls) = 4
    /\ calls[4].ev = "cancel"
    /\ calls[4].node < Len(nodes)
    /\ returned.status = "TIMEOUT"

\* The run was ended by a cancellation: the await it was suspended in, of a
\* node or of a hook, got CancelledError.
Cancelled ==
    \/ calls # <<>> /\ calls[Len(calls)].ev = "cancel"
    \/ hook_log # <<>> /\ hook_log[Len(hook_log)].outcome = "cancelled"

\* C11 as claimed: after run has returned TIMEOUT the timed-out run is not
\* cancelled: nothing it awaits gets a cancellation and it keeps executing.
C11_TimedOutRunContinues ==
    returned.status = "TIMEOUT" =>
        /\ \A k \in DOMAIN calls : calls[k].ev # "cancel"
        /\ \A k \in DOMAIN hook_log : hook_log[k].outcome # "cancelled"

\* C11 amended: when run has returned TIMEOUT the timed-out run has been
\* cancelled at the await it was suspended in: the node or hook in flight is
\* the last one invoked, and from then on no node and no hook is invoked and
\* the run produces no result.
C11_TimedOutRunCancelled ==
    /\ [](returned.status = "TIMEOUT" => pc = "timed_out" /\ Cancelled)
    /\ [][returned.status = "TIMEOUT" =>
            calls' = calls /\ hook_log' = hook_log /\ result' = result /\ pc' = pc]_vars

C11_Witness ==
    /\ returned.status = "TIMEOUT"
    /\ Len(nodes) = 3
    /\ Len(calls) = 2
    /\ calls[2].ev = "cancel"
    /\ calls[2].node = 1

\* The positions in the hook log of the hooks of one kind.
HooksOfKind(kind) == {k \in DOMAIN hook_log : hook_log[k].kind = kind}

\* C13: for every hook kind (workflow-start, workflow-end, per-node-error) the
\* hooks are invoked in registration order: the hooks of one kind that have
\* been invoked are those of the middleware registered first, second, ... in
\* that order, each once.
C13_HooksFIFO ==
    /\ \A j \in DOMAIN middleware : middleware[j].id = j
    /\ \A kind \in {"start", "end", "node_error"} :
          LET hs == HooksOfKind(kind) IN
          /\ Cardinality(hs) <= Len(middleware)
          /\ \A k \in hs : hook_log[k].mw = Cardinality({j \in hs : j <= k})

C13_Witness ==
    /\ pc = "returned"
    /\ Len(middleware) = 2
    /\ Cardinality(HooksOfKind("start")) = 2
    /\ Cardinality(HooksOfKind("node_error")) = 2
    /\ Cardinality(HooksOfKind("end")) = 2

RaisedHooks == {k \in DOMAIN hook_log : hook_log[k].outcome = "raised"}

\* The position of the run while the hooks of a kind are being invoked.
LoopOfKind(kind) ==
    IF kind = "start" THEN "start_hooks" ELSE IF kind = "end" THEN "end_hooks" ELSE "error_hooks"

\* C14: a lifecycle hook that raises is isolated, for the three kinds alike:
\* the hook of the middleware registered next is invoked next, after the last
\* one the run goes on as after a hook that returned, and the status, output
\* and error of the run are those the nodes alone determine.
C14_HookFailureIsolated ==
    /\ \A k \in RaisedHooks :
          LET e == hook_log[k] IN
          /\ e.mw < Len(middleware) /\ k < Len(hook_log) =>
                hook_log[k + 1].kind = e.kind /\ hook_log[k + 1].mw = e.mw + 1
          /\ e.mw < Len(middleware) /\ k = Len(hook_log) =>
                pc = LoopOfKind(e.kind) /\ h = e.mw + 1
          /\ e.mw = Len(middleware) /\ k = Len(hook_log) /\ e.kind = "start" =>
                pc \in {"start_hooks", "loop", "in_node", "error_hooks", "end_hooks", "timed_out"}
          /\ e.mw = Len(middleware) /\ k = Len(hook_log) /\ e.kind = "node_error" =>
                pc \in {"error_hooks", "end_hooks"}
          /\ e.mw = Len(middleware) /\ k = Len(hook_log) /\ e.kind = "end" =>
                pc \in {"end_hooks", "returned"}
          /\ e.kind = "end" => e.status = result.status
    /\ result.status # "NONE" /\ _validate_input_data(input_data) =>
          result = IF CriticalFailures = {}
                   THEN CompletedResult(previous_outputs, metrics)
                   ELSE FailedResult(nodes[idx], node_result, metrics)
    /\ pc = "returned" /\ RaisedHooks # {} =>
          /\ returned = result
          /\ calls # <<>>
          /\ Cardinality(HooksOfKind("start")) = Len(middleware)
          /\ Cardinality(HooksOfKind("end")) = Len(middleware)
          /\ CriticalFailures # {} => Cardinality(HooksOfKind("node_error")) = Len(middleware)

C14_Witness ==
    /\ pc = "returned"
    /\ returned.status = "FAILED"
    /\ Len(middleware) = 2
    /\ \A k \in DOMAIN hook_log :
          hook_log[k].outcome = IF hook_log[k].mw = 1 THEN "raised" ELSE "ok"
    /\ Len(hook_log) = 6

\* ------------------------------------------------- ConditionalNode claims
ChildRets == {k \in DOMAIN child_calls : child_calls[k].ev = "ret"}
ChildRaised == {k \in DOMAIN child_calls : child_calls[k].ev = "raise"}

\* The child a log entry is about.
ChildNode(name) == IF name[1] = "true" THEN true_nodes[name[2]] ELSE false_nodes[name[2]]

FailedChildren == {k \in ChildRets : child_calls[k].res.status = "FAILED"}
CriticalChildFailures == {k \in FailedChildren : ChildNode(child_calls[k].node).is_critical}
IsolatedChildFailures == {k \in FailedChildren : ~ChildNode(child_calls[k].node).is_critical}

\* The condition `x > 10` can be evaluated on the context the node was given:
\* x is defined (previous_outputs before input_data) and is a number.
XDefined == "x" \in (DOMAIN given.input_data) \cup (DOMAIN given.previous_outputs)
XIsNumber == "x" \in DOMAIN given.previous_outputs \/ given.input_data["x"].t = "int"
XValue == IF "x" \in DOMAIN given.previous_outputs THEN given.previous_outputs["x"]
          ELSE given.input_data["x"].n
ConditionHolds == XDefined /\ XIsNumber /\ XValue > 10
ConditionFails == XDefined /\ XIsNumber /\ ~(XValue > 10)

\* C16: only children of the branch the condition selects are invoked: the
\* true branch when the condition is true, the false branch when it is false;
\* a branch that is run to its end has each of its children invoked once; when
\* the false branch is selected and empty no child is invoked and the result
\* is COMPLETED with an empty output map.
C16_OnlySelectedBranch ==
    cpc # "idle" =>
        /\ ConditionHolds => \A k \in DOMAIN child_calls : child_calls[k].node[1] = "true"
        /\ ConditionFails => \A k \in DOMAIN child_calls : child_calls[k].node[1] = "false"
        /\ cond_result.status = "COMPLETED" =>
              LET branch == IF ConditionHolds THEN true_nodes ELSE false_nodes IN
              /\ Len(child_calls) = 2 * Len(branch)
              /\ \A i \in DOMAIN branch : child_calls[2 * i - 1].ev = "call"
                                          /\ child_calls[2 * i - 1].node = branch[i].name
        /\ ConditionFails /\ false_nodes = <<>> /\ cpc = "done" =>
              /\ child_calls = <<>>
              /\ cond_result = NodeResult("COMPLETED", SomeOut(EmptyMap), "None", 1, NoTok)

C16_Witness ==
    /\ cpc = "done"
    /\ cond_result.status = "COMPLETED"
    /\ given.input_data["x"] = IntVal(42)
    /\ ConditionFails
    /\ Len(false_nodes) = 2
    /\ Len(child_calls) = 4

\* C17: when a critical child of the selected branch ends FAILED the branch is
\* aborted at once: no later sibling is invoked, and the result of the
\* ConditionalNode is FAILED, without output, with an error naming that child.
C17_CriticalChildAborts ==
    \A k \in CriticalChildFailures :
        /\ k = Len(child_calls)
        /\ \A j \in DOMAIN child_calls : child_calls[j].node[2] <= child_calls[k].node[2]
        /\ cpc = "done"
        /\ cond_result.status = "FAILED"
        /\ cond_result.output = NoneOut
        /\ cond_result.error.kind = "child_failed"
        /\ cond_result.error.node = child_calls[k].node
        /\ cond_result.error.detail = child_calls[k].res.error

C17_Witness ==
    /\ cpc = "done"
    /\ Len(true_nodes) = 3
    /\ Len(child_calls) = 4
    /\ 4 \in CriticalChildFailures
    /\ child_calls[2].res.status = "COMPLETED"
    /\ cond_result.error.node = <<"true", 2>>

\* C18: when a non-critical child of the selected branch ends FAILED the
\* branch goes on: the next sibling is invoked, the ConditionalNode ends
\* COMPLETED when no critical child fails, and the accumulated output holds
\* nothing the failed child's result carries.
C18_IsolatedChildFailure ==
    \A k \in IsolatedChildFailures :
        LET i == child_calls[k].node[2] IN
        /\ k < Len(child_calls) =>
              child_calls[k + 1].ev = "call" /\ child_calls[k + 1].node[2] = i + 1
        /\ cpc = "done" /\ CriticalChildFailures = {} /\ ChildRaised = {} =>
              cond_result.status = "COMPLETED"
        /\ \A key \in DOMAIN accumulated_output : accumulated_output[key] # i
        /\ cond_result.output.some =>
              \A key \in DOMAIN cond_result.output.val : cond_result.output.val[key] # i

\* C19: when the condition cannot be evaluated (undefined variable, type
\* error) the ConditionalNode returns FAILED without output and no child is
\* invoked, whatever its own is_critical flag is.
C19_ConditionFailureFails ==
    cpc # "idle" /\ ~(XDefined /\ XIsNumber) =>
        /\ cpc = "done"
        /\ cond_result.status = "FAILED"
        /\ cond_result.output = NoneOut
        /\ cond_result.error.kind = "condition"
        /\ child_calls = <<>>
        /\ branch_name = "None"

C19_Witness ==
    /\ cpc = "done"
    /\ ~is_critical
    /\ ~XDefined
    /\ cond_result.status = "FAILED"
    /\ Len(true_nodes) = 2

\* The accumulator the engine's node loop has after the children that came
\* back in the first n entries of the log, started from prev.
RECURSIVE EngineThread(_, _)
EngineThread(prev, n) ==
    IF n = 0 THEN prev
    ELSE IF child_calls[n].ev = "ret"
         THEN MergeOutput(EngineThread(prev, n - 1), child_calls[n].res)
         ELSE EngineThread(prev, n - 1)

\* C20: the children of the selected branch are invoked in list order and
\* outputs are threaded as the engine threads them for a top-level list: each
\* child gets the original input and, as previous_outputs, the incoming
\* previous_outputs overlaid with the outputs of the earlier siblings that
\* completed; the accumulated output of the branch is what the engine
\* accumulates for the same list.
C20_BranchThreadsLikeEngine ==
    /\ \A k \in DOMAIN child_calls :
          /\ child_calls[k].node[2] = (k + 1) \div 2
          /\ child_calls[k].ev = "call" =>
                child_calls[k].ctx =
                    BuildContext(given.input_data, EngineThread(given.previous_outputs, k - 1))
    /\ cpc \in {"branch", "in_child"} =>
          accumulated_output = EngineThread(EmptyMap, Len(child_calls))
    /\ cond_result.status = "COMPLETED" =>
          cond_result.output = SomeOut(EngineThread(EmptyMap, Len(child_calls)))

\* The field-wise sum <<prompt, completion, total>> of the token usage the
\* children reported in the first n entries of the log.
RECURSIVE ReportedUsage(_)
ReportedUsage(n) ==
    IF n = 0 THEN <<0, 0, 0>>
    ELSE LET rest == ReportedUsage(n - 1)
             tu == child_calls[n].res.token_usage
         IN  IF child_calls[n].ev = "ret" /\ tu.some
             THEN <<rest[1] + tu.prompt_tokens, rest[2] + tu.completion_tokens,
                    rest[3] + tu.total_tokens>>
             ELSE rest

\* C21: the token usage of the result of a ConditionalNode that ran a branch
\* is the field-wise sum (prompt, completion, total) of the token usage
\* reported by all the children it executed.
C21_BranchUsageIsSum ==
    cpc = "done" /\ branch_name # "None" =>
        LET reported == ReportedUsage(Len(child_calls))
            tu == cond_result.token_usage
        IN  /\ tu.prompt_tokens = reported[1]
            /\ tu.completion_tokens = reported[2]
            /\ tu.total_tokens = reported[3]

\* ------------------------------------------------- token accounting claims
Counts(tu) == <<tu.prompt_tokens, tu.completion_tokens, tu.total_tokens>>

\* The field-wise sum of the usages the nodes in the set S reported.
RECURSIVE SumCounts(_)
SumCounts(S) ==
    IF S = {} THEN <<0, 0, 0>>
    ELSE LET i == CHOOSE i \in S : TRUE
             rest == SumCounts(S \ {i})
             c == Counts(usages[i])
         IN  <<rest[1] + c[1], rest[2] + c[2], rest[3] + c[3]>>

\* C22: after any sequence of recorded usages, TokenUsageTracker.total and the
\* engine's token_usage_total satisfy total_tokens == prompt_tokens +
\* completion_tokens and each of their counts is the sum of the recorded
\* counts: the counts depend on the set of nodes recorded, not on the order
\* they were recorded in.
C22_AggregationSums ==
    /\ validate_total(_total)
    /\ validate_total(token_metrics.token_usage_total)
    /\ Counts(_total) = SumCounts(Range(recorded))
    /\ Counts(token_metrics.token_usage_total) = SumCounts(Range(engine_recorded))
    /\ Range(recorded) = {i \in Range(engine_recorded) : usages[i].some} =>
          Counts(_total) = Counts(token_metrics.token_usage_total)

C22_Witness ==
    /\ recorded = <<3, 1>>
    /\ engine_recorded = <<1, 2, 3>>
    /\ ~usages[2].some
    /\ usages[1] # usages[3]
    /\ _total.total_tokens = 4
    /\ token_metrics.token_usage_total.model # _total.model

\* ----------------------------------------------------- retry policy claims
RaisedCalls == {k \in DOMAIN api_calls : api_calls[k].kind = "raised"}
RetryableCalls == {k \in RaisedCalls : is_retryable_error(api_calls[k].exc)}
FatalCalls == RaisedCalls \ RetryableCalls

\* C23: a request through the retry policy with N >= 1 attempts calls the API
\* once per attempt and never more than N times; a fatal failure ends the request
\* after that call, which is the last; a success on attempt k returns the
\* response after exactly k calls, all earlier ones having failed retryably;
\* N retryable failures in a row surface the last failure after exactly N
\* calls.
C23_RetryBounded ==
    /\ Len(api_calls) = attempt_number
    /\ Len(api_calls) <= max_attempts
    /\ \A k \in DOMAIN api_calls : k < Len(api_calls) => k \in RetryableCalls
    /\ \A k \in FatalCalls :
          /\ k = Len(api_calls)
          /\ rpc = "done"
          /\ provider_result.kind \in {"ProviderError", "ProviderAuthError"}
          /\ provider_result.cause = api_calls[k].exc
    /\ \A k \in RetryableCalls :
          /\ k < max_attempts => rpc = "backoff" \/ k < Len(api_calls)
          /\ k = max_attempts =>
                /\ rpc = "done"
                /\ provider_result = ProviderResult("ProviderError", api_calls[k].exc)
    /\ rpc = "done" =>
          /\ provider_result.kind # "None"
          /\ provider_result.kind = "LLMResponse" <=> api_calls[Len(api_calls)].kind = "returned"
          /\ provider_result.kind # "LLMResponse" =>
                Len(api_calls) = max_attempts \/ Len(api_calls) \in FatalCalls
    /\ rpc # "done" => provider_result.kind = "None"

C23_Witness ==
    /\ rpc = "done"
    /\ max_attempts = 3
    /\ Len(api_calls) = 3
    /\ RetryableCalls = {1, 2, 3}
    /\ provider_result.kind = "ProviderError"

\* What a failure is: a timeout, a rate-limit (status 429), a transient
\* server error (status >= 500), a connectivity failure, an authentication
\* failure (401, 403), another 4xx malformed-request failure, or something
\* else.
FailureKind(exc) ==
    IF exc.cls \in {"APITimeoutError", "TimeoutError"} THEN "timeout"
    ELSE IF exc.cls \in {"APIConnectionError", "ConnectionError"} THEN "connectivity"
    ELSE IF exc.status_code = 429 THEN "rate_limit"
    ELSE IF exc.status_code >= 500 THEN "server"
    ELSE IF exc.status_code \in {401, 403} THEN "auth"
    ELSE IF exc.status_code \in 400..499 THEN "malformed"
    ELSE "other"

\* C25: is_retryable_error returns True exactly for the failures that are a
\* timeout, a rate-limit, a transient server error or a connectivity failure;
\* an authentication failure and another 4xx failure are fatal.
C25_ClassifiesByKind ==
    \A k \in DOMAIN classified :
        classified[k].retryable <=>
            FailureKind(classified[k].exc) \in {"timeout", "rate_limit", "server", "connectivity"}

\* ------------------------------------------------------ input safety claims
\* A string that matches an injection pattern is in the value v, at any
\* depth of nested maps and lists.
RECURSIVE HoldsInjection(_)
HoldsInjection(v) ==
    IF v.t = "str" THEN MatchesInjection(v.s)
    ELSE IF v.t \in {"dict", "list"} THEN \E k \in DOMAIN v.d : HoldsInjection(v.d[k])
    ELSE FALSE

\* C27: the input safety check runs before anything else: when a string value
\* of the input, at any depth inside nested maps or lists, matches an injection
\* pattern, the run ends FAILED and no node (and no hook) is invoked;
\* otherwise the run is not rejected.
C27_InputSafetyCheck ==
    pc # "idle" =>
        IF HoldsInjection(Dict(input_data))
        THEN /\ pc = "returned"
             /\ returned = InputValidationFailed
             /\ calls = <<>>
             /\ hook_log = <<>>
        ELSE ~(pc = "returned" /\ returned = InputValidationFailed)

\* ------------------------------------------------------- Workflow claims
EmptyNames == {i \in DOMAIN node_list : node_list[i] = ""}
DuplicateNames == {i \in DOMAIN node_list : \E j \in DOMAIN node_list : j # i /\ node_list[j] = node_list[i]}

\* C28: Workflow(nodes) constructs a Workflow exactly from a non-empty list
\* whose names are all non-empty and pairwise distinct, and keeps the list in
\* its order; an empty list, an empty name or a duplicate name is rejected
\* with a ValueError; the node names of a constructed Workflow are unique.
C28_ConstructionValidates ==
    /\ wf_state = "constructed" =>
          /\ node_list # <<>>
          /\ EmptyNames = {}
          /\ DuplicateNames = {}
          /\ wf_nodes = node_list
          /\ \A i, j \in DOMAIN wf_nodes : wf_nodes[i] = wf_nodes[j] => i = j
          /\ wf_error = "None"
    /\ wf_state = "ValueError" =>
          /\ node_list = <<>> \/ EmptyNames # {} \/ DuplicateNames # {}
          /\ wf_nodes = <<>>
          /\ node_list = <<>> <=> wf_error = "Workflow must have at least one node."
          /\ wf_error = "Duplicate node name" => DuplicateNames # {}
          /\ wf_error = "All workflow nodes must have a non-empty name." => EmptyNames # {}
    /\ wf_state \in {"idle", "constructed", "ValueError"}

C28_Witness ==
    /\ wf_state = "ValueError"
    /\ node_list = <<"s1", "s2", "s1">>
    /\ wf_error = "Duplicate node name"

\* ------------------------------------------------- PluginRegistry claims
LastCall == registry_log'[Len(registry_log')]

\* C29: register_provider under a name that is already registered raises
\* PluginRegistrationError and leaves the registry as it was, the earlier
\* provider staying registered under the name; get_provider for a name that
\* is not registered raises PluginNotFoundError whose message lists exactly
\* the names registered at that time, each once.
C29_RegistryErrors ==
    [][Len(registry_log') = Len(registry_log) + 1 =>
          /\ LastCall.op = "register_provider" /\ LastCall.name \in DOMAIN _providers =>
                /\ LastCall.outcome = "PluginRegistrationError"
                /\ _providers' = _providers
          /\ LastCall.op = "get_provider" /\ LastCall.name \notin DOMAIN _providers =>
                /\ LastCall.outcome = "PluginNotFoundError"
                /\ Range(LastCall.detail) = DOMAIN _providers
                /\ Len(LastCall.detail) = Cardinality(DOMAIN _providers)
                /\ _providers' = _providers
          /\ LastCall.op = "get_provider" /\ LastCall.name \in DOMAIN _providers =>
                LastCall.outcome = _providers[LastCall.name]]_vars

C29_Witness ==
    /\ Len(registry_log) = 3
    /\ registry_log[1] = RegistryCall("register_provider", "mock", "None", <<>>)
    /\ registry_log[2] = RegistryCall("register_provider", "mock", "PluginRegistrationError", <<>>)
    /\ registry_log[3] = RegistryCall("get_provider", "my_llm", "PluginNotFoundError", <<"mock", "openai">>)
    /\ _providers["mock"] = "P1"

\* --------------------------------------------------------- run_sync claims
\* C12: when run is called on a thread that already runs an event loop, no
\* second loop is started on that thread: the coroutine of the run is driven
\* by a new loop on the worker thread, the calling thread waits for the
\* worker only and returns the worker's result; the call returns, also when
\* it is made from inside run_async, whose node then goes on.
C12_BridgeToWorker ==
    /\ [](\A t \in Threads : running_loops[t] <= 1)
    /\ [](spc # "RuntimeError")
    /\ [](caller # "plain" /\ spc # "idle" =>
            /\ coro.on # "caller"
            /\ running_loops["caller"] = 1
            /\ coro.on = "worker" => running_loops["worker"] = 1 /\ wpc = "run_until_complete"
            /\ spc = "future.result" => wpc \in {"submitted", "run_until_complete", "finished"}
            /\ spc = "returned" =>
                  /\ sync_result = future
                  /\ sync_result.status \in {"COMPLETED", "FAILED", "TIMEOUT"}
                  /\ wpc = "joined"
                  /\ running_loops["worker"] = 0)
    /\ (caller # "plain" /\ spc = "future.result") ~> (spc = "returned")
    /\ (caller = "run_async" /\ spc = "future.result") ~> (outer = "resumed")

C12_Witness ==
    /\ caller = "run_async"
    /\ outer = "resumed"
    /\ spc = "returned"
    /\ sync_result.status = "TIMEOUT"
    /\ wpc = "joined"

\* ---------------------------------------------------------- LLMNode claims
LLMHookCalls(kind, j) ==
    {k \in DOMAIN llm_hook_log : llm_hook_log[k].kind = kind /\ llm_hook_log[k].mw = j}

\* C15: for every call an LLMNode issues during a run of an engine with
\* registered middleware, the before_llm_call hook of each middleware has been
\* invoked when the provider is called and its after_llm_call hook when the
\* provider has returned; when a before_llm_call hook aborts the call
\* (AbortError) the provider is not called.
C15_LLMHooksAroundCall ==
    /\ provider_calls # <<>> =>
          /\ \A j \in DOMAIN middleware : LLMHookCalls("before_llm_call", j) # {}
          /\ \A j \in DOMAIN middleware : ~middleware[j].broken
    /\ llm_result.status = "COMPLETED" =>
          \A j \in DOMAIN middleware : LLMHookCalls("after_llm_call", j) # {}

\* C24: the request of an LLMNode goes through the retry policy whichever
\* provider is registered: when the provider's complete_async fails with a
\* retryable failure the call is made again, and the node reports that
\* failure as FAILED only after the configured attempts were made.
C24_RequestThroughRetry ==
    /\ lpc = "done"
    /\ llm_result.status = "FAILED"
    /\ provider_calls # <<>>
    /\ is_retryable_error(Exc(llm_result.error[1], 0))
    => Len(provider_calls) >= max_retry_attempts

\* The placeholders of the template that are in neither the workflow input
\* nor previous_outputs of the context the node was called with.
MissingPlaceholders ==
    {prompt_template[i] : i \in DOMAIN prompt_template} \
        ((DOMAIN llm_context.input_data) \cup (DOMAIN llm_context.previous_outputs))

NamesOf(expression) ==
    SelectSeq(<<expression.left, expression.right>>, LAMBDA e : e.node = "Name")

\* The first name of an expression that the context does not bind.
Undefined(expression, names) ==
    SelectSeq(NamesOf(expression), LAMBDA e : e.id \notin DOMAIN names)

\* A sequence of strings is strictly ascending in Python's str order and holds
\* exactly the strings of S.
ListsSorted(seq, S) ==
    /\ {seq[i] : i \in DOMAIN seq} = S
    /\ Len(seq) = Cardinality(S)
    /\ \A i, j \in DOMAIN seq : i < j =>
          \E a, b \in DOMAIN Alphabetical : a < b /\ Alphabetical[a] = seq[i] /\ Alphabetical[b] = seq[j]

\* C30: evaluating an expression that references a variable absent from the
\* context fails with an ExpressionError whose message holds the undefined
\* name and the list, sorted, of exactly the names of the context.
C30_UndefinedVariableMessage ==
    \A k \in DOMAIN evaluations :
        LET ev == evaluations[k]
            missing == Undefined(ev.expression, ev.context)
        IN  missing # <<>> =>
               /\ ~ev.result.ok
               /\ ev.result.error[1] = "Variable "
               /\ ev.result.error[2] = missing[1].id
               /\ ListsSorted(ev.result.error[4], DOMAIN ev.context)

\* "missing_var > 10" on {x: 5, y: 10}
C30_Witness ==
    \E k \in DOMAIN evaluations :
        /\ evaluations[k].expression = Compare(Name("missing_var"), ">", Num(10))
        /\ evaluations[k].context = [n \in {"x", "y"} |-> IF n = "x" THEN IntVal(5) ELSE IntVal(10)]
        /\ evaluations[k].result.error =
              <<"Variable ", "missing_var", " not found in context (available: ", <<"x", "y">>, ")">>

\* ------------------------------------------- ConditionalNode frame claims
\* C33: a node does not mutate the NodeContext it is given: when
\* ConditionalNode.execute_async has returned, the context object the caller
\* passed has the input_data and the previous_outputs it had at the call.
C33_ContextNotMutated ==
    cpc = "done" =>
        /\ context.input_data = given.input_data
        /\ context.previous_outputs = given.previous_outputs

\* The non-critical children whose execute_async raised.
IsolatedChildRaises == {k \in ChildRaised : ~ChildNode(child_calls[k].node).is_critical}

\* C34: when a non-critical child raises from execute_async the fault is the
\* failure of that child only: the next sibling is invoked, and the
\* ConditionalNode ends COMPLETED when no critical child fails.
C34_RaisingChildIsolated ==
    \A k \in IsolatedChildRaises :
        LET i == child_calls[k].node[2] IN
        /\ i < Len(selected_nodes) /\ cpc = "done" =>
              /\ k < Len(child_calls)
              /\ child_calls[k + 1].ev = "call"
              /\ child_calls[k + 1].node[2] = i + 1
        /\ cpc = "done" /\ CriticalChildFailures = {} =>
              cond_result.status = "COMPLETED"

\* ---------------------------------------------------- on_node_error claims
\* The returns of the nodes that ended FAILED (an exception is made a FAILED
\* result by the engine).
FailedNodeReturns == {k \in DOMAIN calls : calls[k].ev = "ret" /\ calls[k].res.status = "FAILED"}

\* C36: on_node_error of every registered middleware is invoked for every
\* node that fails during a run, critical or not, before the workflow-end
\* hooks of the run.
C36_NodeErrorHookOnEveryFailure ==
    pc \in {"end_hooks", "returned"} =>
        \A k \in FailedNodeReturns : \A j \in DOMAIN middleware :
            \E e \in HooksOfKind("node_error") :
                /\ hook_log[e].node = nodes[calls[k].node].name
                /\ hook_log[e].mw = middleware[j].id
                /\ \A f \in HooksOfKind("end") : e < f

\* ------------------------------------------------------------ metric claims
\* The nodes that were invoked, by position.
InvokedNodes == {calls[k].node : k \in {j \in DOMAIN calls : calls[j].ev = "call"}}

\* A critical node ended FAILED.
CriticalNodeFailed == \E k \in FailedNodeReturns : nodes[calls[k].node].is_critical

\* C38: at the end of run_async the counters of the metrics agree with what
\* was executed: steps_completed + steps_failed is the number of nodes
\* invoked, step_durations has an entry for each invoked node and for no
\* other, steps_skipped <= steps_failed, and steps_failed - steps_skipped is
\* 1 when the run ended FAILED on a critical node and 0 otherwise.
C38_MetricsConsistent ==
    pc = "returned" =>
        LET m == returned.metrics IN
        /\ m.steps_completed + m.steps_failed = Cardinality(InvokedNodes)
        /\ DOMAIN m.step_durations = {nodes[i].name : i \in InvokedNodes}
        /\ m.steps_skipped <= m.steps_failed
        /\ m.steps_failed - m.steps_skipped =
              IF returned.status = "FAILED" /\ CriticalNodeFailed THEN 1 ELSE 0

C38_Witness ==
    /\ pc = "returned"
    /\ returned.status = "FAILED"
    /\ Len(nodes) = 3
    /\ Cardinality(InvokedNodes) = 3
    /\ returned.metrics.steps_completed = 1
    /\ returned.metrics.steps_failed = 2
    /\ returned.metrics.steps_skipped = 1

\* C35: TokenUsage records are not modified by aggregation: the record each
\* child returned has the counts it had when the child returned it, and the
\* aggregate a ConditionalNode reports is a record of its own, not the record
\* of a child.
C35_UsageRecordsImmutable ==
    /\ \A i \in DOMAIN usage_records : usage_records[i] = child_calls[2 * i].res.token_usage
    /\ total_ref = 0

\* ------------------------------------------ nested ConditionalNode claims
\* The depth at which the leaf that wrote value v is nested.
DepthOfLeaf(v) == (v + 1) \div 2

\* The ConditionalNode at depth d has returned FAILED.
NestedFailed(d) ==
    \E k \in DOMAIN nest_log :
        /\ nest_log[k].ev = "ret"
        /\ nest_log[k].kind = "cond"
        /\ nest_log[k].node = <<"c", d>>
        /\ nest_log[k].res.status = "FAILED"

\* C32: the previous_outputs a child of a ConditionalNode sees hold nothing
\* produced by an earlier sibling that ended FAILED: when the nested
\* ConditionalNode of a branch has failed, what the leaves under it wrote is
\* neither in the previous_outputs of the sibling invoked after it nor in the
\* output the enclosing ConditionalNode returns.
C32_FailedSiblingInvisible ==
    \A k \in DOMAIN nest_log :
        LET e == nest_log[k]
            d == IF e.ev = "call" THEN e.depth ELSE e.depth + 1
        IN  d >= 1 /\ d < Len(levels) /\ NestedFailed(d + 1) =>
               /\ e.ev = "call" /\ e.kind = "leaf" /\ e.node = 2 * d =>
                     \A key \in DOMAIN e.seen : DepthOfLeaf(e.seen[key]) <= d
               /\ e.ev = "ret" /\ e.kind = "cond" /\ e.node = <<"c", d>> /\ e.res.output.some =>
                     \A key \in DOMAIN e.res.output.val : DepthOfLeaf(e.res.output.val[key]) <= d

\* C37: no node is invoked that is nested in more than
\* config.max_nesting_depth ConditionalNodes, and the execution of a tree
\* nested deeper than that ends FAILED.
C37_NestingDepthBounded ==
    /\ \A k \in DOMAIN nest_log :
          nest_log[k].ev = "call" => nest_log[k].depth <= max_nesting_depth
    /\ npc = "done" /\ Len(levels) > max_nesting_depth => nest_result.status = "FAILED"

\* ---------------------------------------------- expression sandbox claims
\* C31: validate_expression and evaluate accept only comparisons, membership
\* tests, and/or/not, parentheses, literals, variable references and len, and
\* reject with ExpressionError every expression that uses a lambda, an
\* assignment, an import, attribute access or another callable.
C31_EvaluatorIsSandbox ==
    \A k \in DOMAIN checked :
        /\ checked[k].raised = "None" => checked[k].expression \in ConditionForms
        /\ checked[k].expression \in ExpressionSyntaxForms \cup StatementForms =>
              checked[k].raised = "ExpressionError"

\* --------------------------------------------------------- concurrency claims
\* The returns of the top-level nodes in the first n entries of the log of a
\* run: the accumulator and the metrics the engine's loop computes from them
\* alone.
RECURSIVE SoloOutputs(_, _)
SoloOutputs(r, n) ==
    IF n = 0 THEN EmptyMap
    ELSE LET e == run_calls[r][n] IN
         IF e.ev = "ret" /\ e.node % 3 = 0 THEN MergeOutput(SoloOutputs(r, n - 1), e.res)
         ELSE SoloOutputs(r, n - 1)

RECURSIVE SoloMetrics(_, _)
SoloMetrics(r, n) ==
    IF n = 0 THEN ExecutionMetrics
    ELSE LET e == run_calls[r][n] IN
         IF e.ev = "ret" /\ e.node % 3 = 0
         THEN CountNode(RecordMetrics(SoloMetrics(r, n - 1), e.node, e.res),
                        SharedNode(e.node \div 3), e.res)
         ELSE SoloMetrics(r, n - 1)

\* Every value of the map was written by a node invocation of run r.
OwnValues(r, map) == \A key \in DOMAIN map : map[key] \div 10 = r

\* The accumulator, the node contexts, the metrics and the result of run r
\* are those its own node results give.
RunsAlone(r) ==
    LET n == Len(run_calls[r])
        f == frames[r]
    IN  /\ run_pc[r] # "idle" =>
              /\ f.previous_outputs = SoloOutputs(r, n)
              /\ f.metrics = SoloMetrics(r, n)
              /\ OwnValues(r, f.previous_outputs)
              /\ OwnValues(r, f.accumulated_output)
              /\ f.total_token_usage.some => f.total_token_usage.model \div 10 = r
        /\ \A k \in DOMAIN run_calls[r] :
              /\ OwnValues(r, run_calls[r][k].ctx.previous_outputs)
              /\ run_calls[r][k].ev = "call" /\ run_calls[r][k].node % 3 = 0 =>
                    run_calls[r][k].ctx = BuildContext(SharedInput, SoloOutputs(r, k - 1))
        /\ run_pc[r] = "returned" =>
              /\ run_results[r].metrics = SoloMetrics(r, n)
              /\ run_results[r].status = "COMPLETED" =>
                    run_results[r] = CompletedResult(SoloOutputs(r, n), SoloMetrics(r, n))
              /\ run_results[r].status = "FAILED" => run_results[r].output = NoneOut

\* C39: runs of the same engine on the same Workflow, interleaved at their
\* awaits, do not interfere: the accumulator, node contexts, metrics and
\* result of each run are those it has when it runs alone, nothing written in
\* one run appears in another, and a step of one run changes nothing of
\* another.
C39_RunsDoNotInterfere ==
    /\ [](\A r \in Runs : RunsAlone(r))
    /\ [][\A r \in Runs :
            run_pc'[r] = run_pc[r] =>
                /\ frames'[r] = frames[r]
                /\ run_results'[r] = run_results[r]
                /\ run_calls'[r] = run_calls[r]]_vars

\* Both runs are inside the ConditionalNode, each with a child's output
\* accumulated, one of them suspended in its second child.
C39_Witness ==
    /\ shared_nodes[1].kind = "cond"
    /\ run_pc[1] = "in_child"
    /\ run_pc[2] = "branch"
    /\ frames[1].child = 2
    /\ frames[1].accumulated_output = [k \in {"a"} |-> 14]
    /\ frames[2].accumulated_output = [k \in {"b"} |-> 24]

\* -------------------------------------------------------- termination claims
\* No node is invoked twice: by the engine, or in a tree of ConditionalNodes.
InvokedAtMostOnce ==
    /\ \A j, k \in DOMAIN calls :
          calls[j].ev = "call" /\ calls[k].ev = "call" /\ calls[j].node = calls[k].node => j = k
    /\ \A j, k \in DOMAIN nest_log :
          /\ nest_log[j].ev = "call" /\ nest_log[k].ev = "call"
          /\ nest_log[j].kind = nest_log[k].kind
          /\ nest_log[j].node = nest_log[k].node
          => j = k

\* C40: every run terminates: when the invoked nodes and hooks come back,
\* run_async returns a WorkflowResult and the outermost ConditionalNode a
\* NodeResult, each node having been invoked at most once, and a call under
\* the retry policy ends with a response or an error.
C40_EveryRunTerminates ==
    /\ []InvokedAtMostOnce
    /\ (pc \in {"start_hooks", "loop", "in_node", "error_hooks", "end_hooks"}
            ~> (pc = "returned" /\ returned.status \in {"COMPLETED", "FAILED"}))
    /\ (npc \in {"loop", "in_leaf", "deliver"}
            ~> (npc = "done" /\ nest_result.status \in {"COMPLETED", "FAILED"}))
    /\ (rpc \in {"in_api", "backoff"} ~> (rpc = "done" /\ provider_result # NoProviderResult))

\* A run that went through three nodes and the hooks of a middleware.
C40_Witness ==
    /\ pc = "returned"
    /\ returned.status = "COMPLETED"
    /\ Len(nodes) = 3
    /\ Len(calls) = 6
    /\ Len(middleware) = 1
    /\ Len(hook_log) = 2

====
